---- MODULE Spec2Model ----
(***************************************************************************)
(* Live-state core of the armeria text world: characters moving between    *)
(* room containers, player sessions and their teardown, entity attributes  *)
(* and the command-resolution pipeline.                                    *)
(*                                                                         *)
(* Four specifications share the state:                                    *)
(*   SpecWorld  Character.Move and PlayerManager.DisconnectPlayer run by   *)
(*              concurrent tasks, one step per lock-free section;          *)
(*   SpecAttr   SetAttribute / Attribute on a Character and an             *)
(*              ItemInstance;                                              *)
(*   SpecCmd    CommandManager.ProcessCommand / FindCommand on one         *)
(*              session's input line;                                      *)
(*   SpecLock   the sync.RWMutex calls of the ItemInstance and Character   *)
(*              methods run by concurrent tasks, one step per lock call    *)
(*              and per field access.                                      *)
(***************************************************************************)
EXTENDS Integers, Sequences, FiniteSets, TLC

VARIABLES
    \* ---- world: containers, registry, sessions ----
    UnsafeObjects,        \* room -> slot -> occupant id (ObjectContainer of the room)
    registry,             \* id -> room whose container holds it (registry's container index)
    players,              \* PlayerManager.players: the sessions in the manager
    character,            \* Player.character: session -> attached Character
    player,               \* Character.player: character -> controlling session
    sendData,             \* Player.sendData: session -> queued outgoing messages
    sendClosed,           \* session -> the sendData channel has been closed
    UnsafeTempAttributes, \* Character.UnsafeTempAttributes
    callbacks,            \* area/room CharacterEntered / CharacterLeft calls, in order
    teardown,             \* session -> how often each teardown effect has run
    mLock,                \* PlayerManager's mutex: the task holding it
    pc,                   \* task -> position inside Move / DisconnectPlayer
    frame,                \* task -> the locals of the call it is in
    crashed,              \* why the process has terminated (log.Fatal or a panic), or None
    ops,                  \* operations started so far
    \* ---- attributes ----
    UnsafeAttributes,     \* Character.UnsafeAttributes: character -> map
    iiAttributes,         \* ItemInstance.UnsafeAttributes: [isNil, m]
    itemAttributes,       \* the attributes of the parent Item (the template)
    lastCall,             \* the attribute call made last and what it returned
    calls,                \* attribute calls made so far
    \* ---- command resolution ----
    cmdPc,                \* where the session's ProcessCommand call is
    cmdSession,           \* the session whose line is processed
    cmdInput,             \* the line as typed
    cmdLine,              \* the line the current ProcessCommand call resolves
    cmdAlias,             \* the alias target the typed line resolved to, "" if none
    cmdFound,             \* what the last FindCommand returned
    cmdLog,               \* the records LogCtx has logged
    cmdCalls,             \* the handler invocations made
    \* ---- entity locks ----
    rwReaders,            \* entity -> task -> read locks the task holds on its RWMutex
    rwWriter,             \* entity -> the task holding the write lock, or None
    rwWaiting,            \* entity -> the tasks blocked in Lock()
    UnsafeLocationType,   \* ItemInstance.UnsafeLocationType
    Location,             \* ItemInstance.Location: the room location, or None
    UnsafeCharacter,      \* ItemInstance.UnsafeCharacter: the holder's name, "" if none
    lpc,                  \* task -> position inside the method it runs
    lcall,                \* task -> the arguments and the result of that method
    lops                  \* method calls started so far

worldVars == <<UnsafeObjects, registry, players, character, player, sendData,
               sendClosed, UnsafeTempAttributes, callbacks, teardown, mLock,
               pc, frame, crashed, ops>>

attrVars == <<UnsafeAttributes, iiAttributes, itemAttributes, lastCall, calls>>

cmdVars == <<cmdPc, cmdSession, cmdInput, cmdLine, cmdAlias, cmdFound, cmdLog, cmdCalls>>

lockVars == <<rwReaders, rwWriter, rwWaiting, UnsafeLocationType, Location,
              UnsafeCharacter, lpc, lcall, lops>>

vars == <<worldVars, attrVars, cmdVars, lockVars>>

\* What no lock step touches: the world but for the temp attributes and the
\* termination of the process, the attributes but for the instance's map, and
\* command resolution.
notLock == <<UnsafeObjects, registry, players, character, player, sendData,
             sendClosed, callbacks, teardown, mLock, pc, frame, ops,
             UnsafeAttributes, itemAttributes, lastCall, calls, cmdVars>>

\* What the actions of the world leave alone.
notWorld == <<attrVars, cmdVars, lockVars>>

None == "none"

\* ------------------------------------------------------------------ bounds

\* Operations (Move, DisconnectPlayer calls) started in one behaviour.
MaxOps == 2

\* ------------------------------------------------------------------ world fixture

Chars == {"c1", "c2", "c3"}
Sessions == {"s1", "s2", "s3", "s4"}
Rooms == {"r1", "r2", "r3"}
Tasks == {"t1", "t2"}

\* Room.ParentArea
ParentArea(r) == IF r = "r3" THEN "a2" ELSE "a1"

\* The fixed capacity each room's ObjectContainer was constructed with.
Capacity(r) == IF r = "r2" THEN 1 ELSE 2

\* The world as loaded: c1 and c2 share r1, c3 fills r2, r3 is empty.
InitObjects ==
    [r \in Rooms |->
        [i \in 1..Capacity(r) |->
            CASE r = "r1" /\ i = 1 -> "c1"
              [] r = "r1" /\ i = 2 -> "c2"
              [] r = "r2" /\ i = 1 -> "c3"
              [] OTHER -> None]]

\* s1 plays c1, s2 plays c2, s4 plays c3; s3 has not attached a character.
InitCharacter(s) ==
    CASE s = "s1" -> "c1" [] s = "s2" -> "c2" [] s = "s4" -> "c3" [] OTHER -> None

\* The session of each character as loaded.
InitPlayer(c) == CASE c = "c1" -> "s1" [] c = "c2" -> "s2" [] c = "c3" -> "s4"

\* The room the registry holds for each character as loaded.
InitRoom(c) == IF c = "c3" THEN "r2" ELSE "r1"

\* ------------------------------------------------------------------ Go maps

\* A map[string]string is a function on the keys it holds; a Go string whose
\* content the code inspects is the sequence of its characters, "" is <<>>.
EmptyMap == [k \in {} |-> <<>>]

\* m[k]: the zero value "" for a key the map does not hold (also on a nil map)
MapGet(m, k) == IF k \in DOMAIN m THEN m[k] ELSE <<>>

\* m[k] = v
MapSet(m, k, v) == [x \in DOMAIN m \cup {k} |-> IF x = k THEN v ELSE m[x]]

\* The temp attributes of a character that has set TempAttributeGhost.
GhostOn == MapSet(EmptyMap, "ghost", <<"1">>)

\* ------------------------------------------------------------------ Go strings

UpperCase == <<"A", "B", "C", "D", "E", "F", "G", "H", "I", "J", "K", "L", "M",
               "N", "O", "P", "Q", "R", "S", "T", "U", "V", "W", "X", "Y", "Z">>

LowerCase == <<"a", "b", "c", "d", "e", "f", "g", "h", "i", "j", "k", "l", "m",
               "n", "o", "p", "q", "r", "s", "t", "u", "v", "w", "x", "y", "z">>

LowerChar(ch) ==
    IF \E i \in DOMAIN UpperCase : UpperCase[i] = ch
    THEN LowerCase[CHOOSE i \in DOMAIN UpperCase : UpperCase[i] = ch]
    ELSE ch

UpperChar(ch) ==
    IF \E i \in DOMAIN LowerCase : LowerCase[i] = ch
    THEN UpperCase[CHOOSE i \in DOMAIN LowerCase : LowerCase[i] = ch]
    ELSE ch

\* strings.ToLower
ToLower(s) == [i \in 1..Len(s) |-> LowerChar(s[i])]

\* strings.ToUpper
ToUpper(s) == [i \in 1..Len(s) |-> UpperChar(s[i])]

\* strings.Join(elems, sep)
RECURSIVE Join(_, _)
Join(elems, sep) ==
    IF elems = <<>> THEN <<>>
    ELSE IF Len(elems) = 1 THEN elems[1]
    ELSE elems[1] \o sep \o Join(Tail(elems), sep)

\* strings.Split(s, sep) for a separator of one character: every piece
\* between two separators, the empty ones included.
RECURSIVE SplitFrom(_, _, _, _)
SplitFrom(s, sep, i, cur) ==
    IF i > Len(s) THEN <<cur>>
    ELSE IF s[i] = sep THEN <<cur>> \o SplitFrom(s, sep, i + 1, <<>>)
    ELSE SplitFrom(s, sep, i + 1, Append(cur, s[i]))

Split(s, sep) == SplitFrom(s, sep, 1, <<>>)

\* strings.Fields: the maximal runs of non-space characters.
Fields(s) == SelectSeq(Split(s, " "), LAMBDA f : f # <<>>)

\* misc.Contains
Contains(list, x) == \E i \in 1..Len(list) : list[i] = x

\* misc.ParseArguments: the argument tokens as split.
ParseArguments(tokens) == tokens

\* ------------------------------------------------------------------ commands

\* The string literals of the commands, channels and input words, each the
\* sequence of its characters.
Lit ==
    [ look |-> <<"l", "o", "o", "k">>,
      l |-> <<"l">>,
      Say |-> <<"S", "a", "y">>,
      text |-> <<"t", "e", "x", "t">>,
      talk |-> <<"t", "a", "l", "k">>,
      say |-> <<"s", "a", "y">>,
      channel |-> <<"c", "h", "a", "n", "n", "e", "l">>,
      list |-> <<"l", "i", "s", "t">>,
      bld |-> <<"b", "l", "d">>,
      ga |-> <<"g", "a">>,
      gaTarget |-> <<"c", "h", "a", "n", "n", "e", "l", " ", "s", "a", "y", " ", "g", "e", "n", "e", "r", "a", "l", " ", "h", "e", "l", "l", "o">>,
      build |-> <<"b", "u", "i", "l", "d">>,
      pa |-> <<"p", "a">>,
      pb |-> <<"p", "b">>,
      general |-> <<"g", "e", "n", "e", "r", "a", "l">>,
      slashG |-> <<"/", "g">>,
      LOOK |-> <<"L", "O", "O", "K">>,
      L |-> <<"L">>,
      hello |-> <<"h", "e", "l", "l", "o">>,
      help |-> <<"-", "-", "h", "e", "l", "p">>,
      g |-> <<"g">>,
      Lk |-> <<"L", "k">>,
      lk |-> <<"l", "k">>,
      login |-> <<"l", "o", "g", "i", "n">>,
      name |-> <<"n", "a", "m", "e">>,
      password |-> <<"p", "a", "s", "s", "w", "o", "r", "d">>,
      tell |-> <<"t", "e", "l", "l">>,
      target |-> <<"t", "a", "r", "g", "e", "t">>,
      admBld |-> <<"a", "d", "m", " ", "b", "l", "d">> ]

CommandErrNoPerms == "You cannot use that command."
CommandErrInvalid == "That's an invalid command."

\* A nil *CommandPermissions
NilPermissions ==
    [isNil |-> TRUE, RequireNoCharacter |-> FALSE, RequireCharacter |-> FALSE,
     RequirePermission |-> <<>>]

Permissions(noChar, char, perm) ==
    [isNil |-> FALSE, RequireNoCharacter |-> noChar, RequireCharacter |-> char,
     RequirePermission |-> perm]

\* A CommandArgument
Argument(name, remaining, optional, noLog) ==
    [Name |-> name, IncludeRemaining |-> remaining, Optional |-> optional,
     NoLog |-> noLog]

\* A Command; a nil slice (no alternate names, arguments or sub-commands) is
\* <<>>, no alias is "".
Command(id, name, alt, help, alias, perms, arguments, sub) ==
    [Id |-> id, Name |-> name, AltNames |-> alt, Help |-> help, Alias |-> alias,
     Permissions |-> perms, Arguments |-> arguments, Subcommands |-> sub]

\* The nil *Command
NoCmd == Command(None, <<>>, <<>>, "", <<>>, NilPermissions, <<>>, <<>>)

\* CommandManager.commands: the tree registered at startup.
Commands ==
    << Command("look", Lit.look, <<Lit.l, Lit.Lk>>, "Look around.", <<>>,
               NilPermissions, <<>>, <<>>),
       Command("say", Lit.Say, <<>>, "Say something.", <<>>,
               Permissions(FALSE, TRUE, <<>>),
               <<Argument(Lit.text, TRUE, FALSE, FALSE)>>, <<>>),
       Command("talk", Lit.talk, <<Lit.say>>, "Talk to the room.", <<>>,
               NilPermissions,
               <<Argument(Lit.text, TRUE, TRUE, FALSE)>>, <<>>),
       Command("channel", Lit.channel, <<>>, "Use channels.", <<>>,
               Permissions(FALSE, TRUE, <<>>), <<>>,
               << Command("channel say", Lit.say, <<>>, "Say on a channel.", <<>>,
                          NilPermissions,
                          << Argument(Lit.channel, FALSE, FALSE, FALSE),
                             Argument(Lit.text, TRUE, FALSE, FALSE) >>, <<>>),
                  Command("channel list", Lit.list, <<>>, "List the channels.", <<>>,
                          Permissions(FALSE, FALSE, Lit.bld), <<>>, <<>>) >>),
       Command("ga", Lit.ga, <<>>, "Greet the general channel.",
               Lit.gaTarget, NilPermissions, <<>>, <<>>),
       Command("build", Lit.build, <<>>, "Build.", <<>>,
               Permissions(FALSE, FALSE, Lit.bld), <<>>, <<>>),
       Command("pa", Lit.pa, <<>>, "", Lit.pb, NilPermissions, <<>>, <<>>),
       Command("pb", Lit.pb, <<>>, "", Lit.pa, NilPermissions, <<>>, <<>>),
       Command("login", Lit.login, <<>>, "Log in.", <<>>,
               Permissions(TRUE, FALSE, <<>>),
               << Argument(Lit.name, FALSE, FALSE, FALSE),
                  Argument(Lit.password, FALSE, FALSE, TRUE) >>, <<>>),
       Command("tell", Lit.tell, <<>>, "Tell someone something.", <<>>,
               NilPermissions,
               << Argument(Lit.target, FALSE, TRUE, FALSE),
                  Argument(Lit.text, TRUE, TRUE, FALSE) >>, <<>>) >>

\* Armeria.channels: name and slash command of each channel.
Channels == << [Name |-> Lit.general, SlashCommand |-> Lit.slashG] >>

\* Channel.HasPermission(p.Character()): who may chat on the channel.
ChannelHasPermission(ch, s) == character[s] # None

\* Character.InChannel(ch): who has joined the channel.
InChannel(ch, s) == character[s] = "c1"

\* The sessions whose input lines are read: a character without permissions,
\* one with permissions, and a session without a character.
Typists == {"s1", "s2", "s3"}

\* The words a line can start with, and the words that can follow.
FirstWords ==
    { Lit.look, Lit.L, Lit.lk, Lit.say, Lit.channel, Lit.ga, Lit.build, Lit.pa, Lit.g,
      Lit.login, Lit.tell }

RestWords == { Lit.list, Lit.general, Lit.hello, Lit.help }

\* Words typed on one input line.
MaxTokens == 4

\* Alias re-resolutions followed when the outcome of a line is computed.
MaxAliasHops == 3

RECURSIVE WordSeqs(_)
WordSeqs(n) ==
    IF n = 1 THEN {<<w>> : w \in FirstWords}
    ELSE LET shorter == WordSeqs(n - 1) IN
         shorter \cup {Append(ws, w) : ws \in {x \in shorter : Len(x) = n - 1},
                                       w \in RestWords}

\* The input lines: up to MaxTokens words separated by single spaces, and one
\* line of blanks.
InputLines == {Join(ws, <<" ">>) : ws \in WordSeqs(MaxTokens)} \cup {<<" ", " ">>}

\* ------------------------------------------------------------------ attributes

\* Attribute calls made in one behaviour of SpecAttr.
MaxCalls == 3

\* ValidCharacterAttributes(): the whitelist of permanent character attributes.
ValidCharacterAttributes == {"title", "permissions", "picture"}

\* ValidItemAttributes(): the whitelist of item attributes.
ValidItemAttributes == {"picture", "type"}

\* The names a caller may pass: the whitelisted ones and one that is in no whitelist.
AttrNames == ValidCharacterAttributes \cup ValidItemAttributes \cup {"bogus"}

\* The values a caller may pass: the empty string and two others.
AttrValues == {<<>>, <<"a">>, <<"b">>}

ErrInvalidAttribute == "attribute name is invalid"

\* CharacterAttributeDefault(name): the kind's default of an unset attribute.
CharacterAttributeDefault(n) == IF n = "picture" THEN <<"d">> ELSE <<>>

\* Character.SetAttribute without the store.
CharacterSetAttribute_NoStore(m, n, v) ==
    IF n \notin ValidCharacterAttributes
    THEN [err |-> ErrInvalidAttribute, m |-> m]
    ELSE [err |-> None, m |-> m]

\* Character.SetAttribute on the map m: [err, m].
CharacterSetAttribute(m, n, v) ==
    IF n \notin ValidCharacterAttributes
    THEN [err |-> ErrInvalidAttribute, m |-> m]
    ELSE [err |-> None, m |-> MapSet(m, n, v)]

\* Character.Attribute
CharacterAttribute(m, n) ==
    IF Len(MapGet(m, n)) = 0 THEN CharacterAttributeDefault(n) ELSE MapGet(m, n)

\* Item.Attribute of the parent Item: the template's value.
ItemAttribute(n) == MapGet(itemAttributes, n)

\* ItemInstance.SetAttribute storing before it validates the name.
ItemInstanceSetAttribute_StoreFirst(ii, n, v) ==
    LET made == [isNil |-> FALSE, m |-> MapSet(ii.m, n, v)] IN
    IF n \notin ValidItemAttributes
    THEN [err |-> ErrInvalidAttribute, ii |-> made]
    ELSE [err |-> None, ii |-> made]

\* ItemInstance.SetAttribute on the instance map ii: [err, ii]. A nil map is
\* made before the name is validated.
ItemInstanceSetAttribute(ii, n, v) ==
    LET made == [isNil |-> FALSE, m |-> ii.m] IN
    IF n \notin ValidItemAttributes
    THEN [err |-> ErrInvalidAttribute, ii |-> made]
    ELSE [err |-> None, ii |-> [made EXCEPT !.m = MapSet(made.m, n, v)]]

\* A lookup that never reads the overlay.
ItemInstanceAttribute_TemplateOnly(ii, n) == ItemAttribute(n)

\* ItemInstance.Attribute: the overlay, the parent Item's value when it is empty.
ItemInstanceAttribute(ii, n) ==
    IF Len(MapGet(ii.m, n)) = 0 THEN ItemAttribute(n) ELSE MapGet(ii.m, n)

NoCall == [fn |-> None, kind |-> None, ent |-> None, name |-> None,
           value |-> <<>>, err |-> None, ret |-> <<>>]

\* Characters as created: an empty attribute map, c2 with two permissions. The item instance as
\* loaded without attributes: a nil map. The template sets picture.
InitAttrState ==
    /\ UnsafeAttributes = [c \in Chars |->
                             IF c = "c2" THEN MapSet(EmptyMap, "permissions", Lit.admBld)
                             ELSE EmptyMap]
    /\ iiAttributes = [isNil |-> TRUE, m |-> EmptyMap]
    /\ itemAttributes = MapSet(EmptyMap, "picture", <<"a">>)
    /\ lastCall = NoCall
    /\ calls = 0

\* ------------------------------------------------------------------ ObjectContainer

Min(S) == CHOOSE x \in S : \A y \in S : x <= y

ContainerHas(oc, id) == \E i \in DOMAIN oc : oc[i] = id

FreeSlots(oc) == {i \in DOMAIN oc : oc[i] = None}

\* ObjectContainer.Add: CapacityExceeded when every slot is taken, a duplicate
\* is rejected, otherwise the lowest free slot is assigned.
ContainerAdd(oc, id) ==
    IF FreeSlots(oc) = {} THEN [err |-> "CapacityExceeded", oc |-> oc]
    ELSE IF ContainerHas(oc, id) THEN [err |-> "AlreadyPresent", oc |-> oc]
    ELSE [err |-> None, oc |-> [oc EXCEPT ![Min(FreeSlots(oc))] = id]]

\* ObjectContainer.Remove: NotPresent when absent, otherwise the slot is freed.
ContainerRemove(oc, id) ==
    IF ~ContainerHas(oc, id) THEN [err |-> "NotPresent", oc |-> oc]
    ELSE [err |-> None, oc |-> [i \in DOMAIN oc |-> IF oc[i] = id THEN None ELSE oc[i]]]

\* The occupants of a container in slot order.
RECURSIVE SlotOrder(_, _)
SlotOrder(oc, i) ==
    IF i > Len(oc) THEN <<>>
    ELSE (IF oc[i] = None THEN <<>> ELSE <<oc[i]>>) \o SlotOrder(oc, i + 1)

RECURSIVE FilterSeq(_, _)
FilterSeq(s, keep) ==
    IF s = <<>> THEN <<>>
    ELSE (IF Head(s) \in keep THEN <<Head(s)>> ELSE <<>>) \o FilterSeq(Tail(s), keep)

\* ObjectContainer.Characters(onlineOnly, except), in slot order.
Characters(oc, onlineOnly, except, pl) ==
    FilterSeq(SlotOrder(oc, 1),
              {c \in Chars : c # except /\ (onlineOnly => pl[c] # None)})

\* Character.Room: the registry's container for the character, as a room.
Room(c) == registry[c]

\* ------------------------------------------------------------------ sessions

\* ClientActions.ShowText for every character of cs: the message is queued on
\* the sendData of the session playing it.
RECURSIVE ShowTextAll(_, _, _, _)
ShowTextAll(q, cs, pl, msg) ==
    IF cs = <<>> THEN q
    ELSE ShowTextAll([q EXCEPT ![pl[Head(cs)]] = Append(@, msg)], Tail(cs), pl, msg)

\* A send on a closed channel panics.
SendsToClosed(cs, pl) == \E i \in 1..Len(cs) : sendClosed[pl[cs[i]]]

\* DisconnectPlayer without its guard: every call tears the session down.
IsPlayer_NoGuard(s) == s \in Sessions

\* m.players[p]
IsPlayer(s) == s \in players

\* ------------------------------------------------------------------ permissions and help

\* Character.HasPermission(p) on the attribute map m of the character
HasPermission(m, p) == Contains(Split(MapGet(m, "permissions"), " "), p)

\* Command.CheckPermissions(p) for session s: "true", "false", or "panic"
\* when HasPermission is called on the nil Character of a session that has
\* none attached.
CheckPermissions(cmd, s) ==
    IF cmd.Permissions.isNil THEN "true"
    ELSE IF cmd.Permissions.RequireNoCharacter /\ character[s] # None THEN "false"
    ELSE IF cmd.Permissions.RequireCharacter /\ character[s] = None THEN "false"
    ELSE IF Len(cmd.Permissions.RequirePermission) > 0
    THEN IF character[s] = None THEN "panic"
         ELSE IF ~HasPermission(UnsafeAttributes[character[s]],
                                cmd.Permissions.RequirePermission)
         THEN "false" ELSE "true"
    ELSE "true"

\* A text shown to a session: the fixed text or the kind of generated help,
\* with the parts the help is formatted from.
Msg(kind, help, path, rows) == [kind |-> kind, help |-> help, path |-> path, rows |-> rows]

Text(t) == Msg(t, "", <<>>, <<>>)

NoMsg == Text("")

Row(name, help, optional) == [name |-> name, help |-> help, optional |-> optional]

\* Command.ShowSubcommandHelp(p, commandsEntered): a row per sub-command,
\* each under the permission check of cmd itself.
ShowSubcommandHelp(cmd, s, commandsEntered) ==
    IF Len(cmd.Subcommands) = 0 THEN Text("There are no sub-commands available.")
    ELSE Msg("SubcommandHelp", cmd.Help, Join(commandsEntered, <<" ">>),
             LET rows == [i \in 1..Len(cmd.Subcommands) |->
                             Row(cmd.Subcommands[i].Name, cmd.Subcommands[i].Help, FALSE)]
             IN IF CheckPermissions(cmd, s) = "true" THEN rows ELSE <<>>)

\* Command.ShowArgumentHelp(commandsEntered): [name] for an optional
\* argument, <name> for a required one.
ShowArgumentHelp(cmd, commandsEntered) ==
    IF Len(cmd.Arguments) = 0 THEN Text("There are no command arguments.")
    ELSE Msg("ArgumentHelp", cmd.Help, Join(commandsEntered, <<" ">>),
             [i \in 1..Len(cmd.Arguments) |->
                 Row(cmd.Arguments[i].Name, "", cmd.Arguments[i].Optional)])

\* Command.ArgumentByName: the first argument of that name, letter case
\* ignored; NoArgument when there is none.
NoArgument == [Name |-> <<>>, IncludeRemaining |-> FALSE, Optional |-> FALSE,
               NoLog |-> FALSE, isNil |-> TRUE]

ArgumentByName(cmd, name) ==
    LET hits == {i \in 1..Len(cmd.Arguments) :
                    ToLower(cmd.Arguments[i].Name) = ToLower(name)} IN
    IF hits = {} THEN NoArgument
    ELSE [Name |-> cmd.Arguments[Min(hits)].Name,
          IncludeRemaining |-> cmd.Arguments[Min(hits)].IncludeRemaining,
          Optional |-> cmd.Arguments[Min(hits)].Optional,
          NoLog |-> cmd.Arguments[Min(hits)].NoLog, isNil |-> FALSE]

\* ------------------------------------------------------------------ CommandManager.FindCommand

\* What FindCommand returns: the command (NoCmd for nil), the arguments, the
\* error text; whether it panicked instead; and the commands whose names it
\* compared, in order.
Found(cmd, args, msg, panicked, examined) ==
    [cmd |-> cmd, args |-> args, msg |-> msg, panicked |-> panicked,
     examined |-> examined]

\* cmdName := strings.ToLower(sections[0]), taken as typed
CmdName_AsTyped(sections) == sections[1]

\* cmdName := strings.ToLower(sections[0])
CmdName(sections) == ToLower(sections[1])

\* strings.ToLower(cmd.Name) == cmdName || misc.Contains(cmd.AltNames, cmdName)
Matches(cmd, cmdName) == ToLower(cmd.Name) = cmdName \/ Contains(cmd.AltNames, cmdName)

\* The tokens from the 0-based position pos on, whatever pos is.
RemainingFrom_Start(parsedArgs, pos) == Join(parsedArgs, <<" ">>)

\* strings.Join(parsedArgs[pos:], " ")
RemainingFrom(parsedArgs, pos) ==
    Join(SubSeq(parsedArgs, pos + 1, Len(parsedArgs)), <<" ">>)

\* The loop over cmd.Arguments, from the 0-based position pos: "ok" with the
\* arguments bound, "help" when a required argument has no token, "panic"
\* when parsedArgs[pos:] is sliced beyond the tokens.
RECURSIVE BindArguments(_, _, _, _)
BindArguments(arguments, parsedArgs, pos, acc) ==
    IF pos >= Len(arguments) THEN [status |-> "ok", args |-> acc]
    ELSE LET arg == arguments[pos + 1] IN
         IF ~arg.Optional /\ Len(parsedArgs) < pos + 1
         THEN [status |-> "help", args |-> acc]
         ELSE IF arg.IncludeRemaining
         THEN IF pos > Len(parsedArgs)
              THEN [status |-> "panic", args |-> acc]
              ELSE BindArguments(arguments, parsedArgs, pos + 1,
                       MapSet(acc, arg.Name, RemainingFrom(parsedArgs, pos)))
         ELSE IF Len(parsedArgs) >= pos + 1
         THEN BindArguments(arguments, parsedArgs, pos + 1,
                            MapSet(acc, arg.Name, parsedArgs[pos + 1]))
         ELSE BindArguments(arguments, parsedArgs, pos + 1, MapSet(acc, arg.Name, <<>>))

\* "Parse and store arguments, if any" for the leaf cmd.
ParseLeaf(cmd, sections, alreadyProcessed, ex) ==
    LET parsedArgs == ParseArguments(Tail(sections))
        usage == ShowArgumentHelp(cmd, Append(alreadyProcessed, CmdName(sections))) IN
    IF cmd.Arguments = <<>> THEN Found(cmd, EmptyMap, NoMsg, FALSE, ex)
    ELSE IF Len(parsedArgs) > 0 /\ parsedArgs[Len(parsedArgs)] = Lit.help
    THEN Found(NoCmd, EmptyMap, usage, FALSE, ex)
    ELSE LET b == BindArguments(cmd.Arguments, parsedArgs, 0, EmptyMap) IN
         CASE b.status = "help" -> Found(NoCmd, EmptyMap, usage, FALSE, ex)
           [] b.status = "panic" -> Found(NoCmd, EmptyMap, NoMsg, TRUE, ex)
           [] OTHER -> Found(cmd, b.args, NoMsg, FALSE, ex)

RECURSIVE FindIn(_, _, _, _, _, _)
RECURSIVE FindCommand(_, _, _, _, _)

\* A failed permission check that goes on to the next sibling.
Denied_NextSibling(s, searchWithin, i, sections, alreadyProcessed, ex) ==
    FindIn(s, searchWithin, i + 1, sections, alreadyProcessed, ex)

\* if !cmd.CheckPermissions(p) { return nil, nil, CommandErrNoPerms }
Denied(s, searchWithin, i, sections, alreadyProcessed, ex) ==
    Found(NoCmd, EmptyMap, Text(CommandErrNoPerms), FALSE, ex)

\* The loop of FindCommand over searchWithin, from its i-th command.
FindIn(s, searchWithin, i, sections, alreadyProcessed, ex) ==
    IF i > Len(searchWithin)
    THEN Found(NoCmd, EmptyMap, Text(CommandErrInvalid), FALSE, ex)
    ELSE LET cmd == searchWithin[i]
             cmdName == CmdName(sections)
             seen == Append(ex, cmd.Id) IN
         IF ~Matches(cmd, cmdName)
         THEN FindIn(s, searchWithin, i + 1, sections, alreadyProcessed, seen)
         ELSE LET allowed == CheckPermissions(cmd, s) IN
              IF allowed = "panic" THEN Found(NoCmd, EmptyMap, NoMsg, TRUE, seen)
              ELSE IF allowed = "false"
              THEN Denied(s, searchWithin, i, sections, alreadyProcessed, seen)
              ELSE IF cmd.Subcommands # <<>>
              THEN LET processedCommands == Append(alreadyProcessed, cmdName) IN
                   IF Len(sections) = 1
                   THEN Found(NoCmd, EmptyMap,
                              ShowSubcommandHelp(cmd, s, processedCommands), FALSE, seen)
                   ELSE FindCommand(s, cmd.Subcommands, Join(Tail(sections), <<" ">>),
                                    processedCommands, seen)
              ELSE ParseLeaf(cmd, sections, alreadyProcessed, seen)

\* CommandManager.FindCommand(p, searchWithin, cmd, alreadyProcessed) for
\* session s; ex are the commands compared at the levels above.
FindCommand(s, searchWithin, cmd, alreadyProcessed, ex) ==
    FindIn(s, searchWithin, 1, Fields(cmd), alreadyProcessed, ex)

\* ------------------------------------------------------------------ CommandManager.ProcessCommand

\* The short-circuit for channel commands, from the i-th channel: the
\* sections to resolve, or the text that ends the call.
RECURSIVE ChannelShortCircuit(_, _, _)
ChannelShortCircuit(s, sections, i) ==
    IF i > Len(Channels) THEN [stop |-> FALSE, msg |-> NoMsg, sections |-> sections]
    ELSE LET ch == Channels[i] IN
         IF ch.SlashCommand # <<"/">> \o ToLower(sections[1])
         THEN ChannelShortCircuit(s, sections, i + 1)
         ELSE IF ~ChannelHasPermission(ch, s)
         THEN [stop |-> TRUE, msg |-> Text("You are not able to chat on that channel."),
               sections |-> sections]
         ELSE IF ~InChannel(ch, s)
         THEN [stop |-> TRUE, msg |-> Text("You are not in that channel."),
               sections |-> sections]
         ELSE ChannelShortCircuit(s,
                  <<Lit.channel, Lit.say, ch.Name>> \o Tail(sections), i + 1)

\* m.ProcessCommand(p, cmd.Alias, playerInitiated) with the typed arguments
\* carried over to the alias.
AliasLine_WithTypedArguments(cmd, sections) == Join(<<cmd.Alias>> \o Tail(sections), <<" ">>)

\* m.ProcessCommand(p, cmd.Alias, playerInitiated): the line resolved next.
AliasLine(cmd, sections) == cmd.Alias

\* A nil check that is never true.
IsNil_Never(cmd) == FALSE

\* cmd == nil
IsNil(cmd) == cmd.Id = None

\* One call of ProcessCommand(p, command, _) for session s, up to its
\* recursive call or its handler: what it does and with what.
ProcessOnce(s, command) ==
    LET sections == Fields(command)
        none == [kind |-> "empty", msg |-> NoMsg,
                 found |-> Found(NoCmd, EmptyMap, NoMsg, FALSE, <<>>),
                 resolved |-> <<>>, next |-> <<>>] IN
    IF Len(sections) = 0 THEN none
    ELSE LET ch == ChannelShortCircuit(s, sections, 1) IN
         IF ch.stop THEN [none EXCEPT !.kind = "channel", !.msg = ch.msg]
         ELSE LET line == Join(ch.sections, <<" ">>)
                  r == FindCommand(s, Commands, line, <<>>, <<>>)
                  called == [none EXCEPT !.found = r, !.resolved = line] IN
              IF r.panicked THEN [called EXCEPT !.kind = "panic"]
              ELSE IF IsNil(r.cmd)
              THEN [called EXCEPT !.kind = "error", !.msg = r.msg]
              ELSE IF Len(r.cmd.Alias) > 0
              THEN [called EXCEPT !.kind = "alias", !.next = AliasLine(r.cmd, ch.sections)]
              ELSE [called EXCEPT !.kind = "invoke"]

\* The record with every argument in it.
LogCtx_AllArguments(cmd, args, c) ==
    [character |-> IF c = None THEN "Anonymous" ELSE c,
     command |-> cmd.Name,
     arguments |-> {<<k, args[k]>> : k \in DOMAIN args}]

\* Command.LogCtx: the record logged for an invocation; an argument flagged
\* NoLog is left out.
LogCtx(cmd, args, c) ==
    [character |-> IF c = None THEN "Anonymous" ELSE c,
     command |-> cmd.Name,
     arguments |-> {<<k, args[k]>> : k \in {x \in DOMAIN args :
                        ArgumentByName(cmd, x).isNil \/ ~ArgumentByName(cmd, x).NoLog}}]

NoFound == Found(NoCmd, EmptyMap, NoMsg, FALSE, <<>>)

InitCmdState ==
    /\ cmdPc = "idle"
    /\ cmdSession = None
    /\ cmdInput = <<>>
    /\ cmdLine = <<>>
    /\ cmdAlias = <<>>
    /\ cmdFound = NoFound
    /\ cmdLog = <<>>
    /\ cmdCalls = <<>>

\* ------------------------------------------------------------------ entity locks

\* Method calls (of SpecLock) started in one behaviour.
MaxLockOps == 2

\* const ItemLocationRoom, ItemLocationCharacter
ItemLocationRoom == 0

ItemLocationCharacter == 1

\* The entities whose RWMutex the methods take: the item instance, its
\* parent Item and the character c1.
Entities == {"ii", "item", "c1"}

\* The character whose name and temp attributes the calls of SpecLock use.
LockChar == "c1"

\* The calls a task can make: the method, the attribute name or key, the
\* value, the location type, and what the call has read so far.
LockCall(fn, name, value, ty) ==
    [fn |-> fn, name |-> name, value |-> value, ty |-> ty, ret |-> <<>>]

NoLockCall == LockCall(None, None, <<>>, ItemLocationRoom)

LockCalls ==
    { LockCall("Attribute", "picture", <<>>, ItemLocationRoom),
      LockCall("SetAttribute", "picture", <<"b">>, ItemLocationRoom),
      LockCall("SetLocationType", None, <<>>, ItemLocationRoom),
      LockCall("SetLocationType", None, <<>>, ItemLocationCharacter),
      LockCall("SetCharacter", None, <<>>, ItemLocationRoom),
      LockCall("LoggedOut", None, <<>>, ItemLocationRoom),
      LockCall("SetTempAttribute", "ghost", <<"1">>, ItemLocationRoom),
      LockCall("SetTempAttribute", "k", <<"1">>, ItemLocationRoom),
      LockCall("TempAttribute", "ghost", <<>>, ItemLocationRoom) }

\* Where each method starts.
FirstStep(fn) ==
    CASE fn = "Attribute" -> "attr_rlock"
      [] fn = "SetAttribute" -> "set_lock"
      [] fn = "SetLocationType" -> "slt_lock"
      [] fn = "SetCharacter" -> "sc_lock"
      [] fn = "LoggedOut" -> "lo_range"
      [] fn = "SetTempAttribute" -> "sta_lock"
      [] fn = "TempAttribute" -> "ta_rlock"

\* No lock is held; the item instance lies in room r1 and nobody holds it.
InitLockState ==
    /\ rwReaders = [e \in Entities |-> [t \in Tasks |-> 0]]
    /\ rwWriter = [e \in Entities |-> None]
    /\ rwWaiting = [e \in Entities |-> {}]
    /\ UnsafeLocationType = ItemLocationRoom
    /\ Location = "r1"
    /\ UnsafeCharacter = ""
    /\ lpc = [t \in Tasks |-> "idle"]
    /\ lcall = [t \in Tasks |-> NoLockCall]
    /\ lops = 0

\* ------------------------------------------------------------------ tasks

Idle(t) == pc[t] = "idle" /\ crashed = None /\ ops < MaxOps

Running(t, at) == pc[t] = at /\ crashed = None

Crash(why) == crashed' = why

NoFrame == [c |-> None, to |-> None, oldRoom |-> None, p |-> None, todo |-> <<>>]

Init ==
    /\ UnsafeObjects = InitObjects
    /\ registry = [c \in Chars |-> InitRoom(c)]
    /\ players = Sessions
    /\ character = [s \in Sessions |-> InitCharacter(s)]
    /\ player = [c \in Chars |-> InitPlayer(c)]
    /\ sendData = [s \in Sessions |-> <<>>]
    /\ sendClosed = [s \in Sessions |-> FALSE]
    /\ UnsafeTempAttributes = [c \in Chars |-> IF player[c] # None THEN GhostOn ELSE EmptyMap]
    /\ callbacks = <<>>
    /\ teardown = [s \in Sessions |->
                     [logout |-> 0, detach |-> 0, socket |-> 0, queue |-> 0,
                      removed |-> 0, noop |-> 0]]
    /\ mLock = None
    /\ pc = [t \in Tasks |-> "idle"]
    /\ frame = [t \in Tasks |-> NoFrame]
    /\ crashed = None
    /\ ops = 0
    /\ InitAttrState
    /\ InitCmdState
    /\ InitLockState

\* ------------------------------------------------------------------ Character.Move

\* oldRoom := c.Room()
MoveBegin(t, c, to) ==
    /\ Idle(t)
    /\ UNCHANGED notWorld
    /\ player[c] # None
    /\ ops' = ops + 1
    /\ frame' = [frame EXCEPT ![t] = [NoFrame EXCEPT !.c = c, !.to = to, !.oldRoom = Room(c)]]
    /\ pc' = [pc EXCEPT ![t] = "move_remove"]
    /\ UNCHANGED <<UnsafeObjects, registry, players, character, player, sendData,
                   sendClosed, UnsafeTempAttributes, callbacks, teardown, mLock, crashed>>

\* oldRoom.Here().Remove(c.ID()); the error is dropped
MoveRemove(t) ==
    /\ Running(t, "move_remove")
    /\ UNCHANGED notWorld
    /\ LET f == frame[t] IN
       IF f.oldRoom = None
       THEN /\ Crash("panic: nil room")
            /\ UNCHANGED <<UnsafeObjects, registry, pc>>
       ELSE LET r == ContainerRemove(UnsafeObjects[f.oldRoom], f.c) IN
            /\ UnsafeObjects' = [UnsafeObjects EXCEPT ![f.oldRoom] = r.oc]
            /\ registry' = IF r.err = None /\ registry[f.c] = f.oldRoom
                           THEN [registry EXCEPT ![f.c] = None] ELSE registry
            /\ pc' = [pc EXCEPT ![t] = "move_add"]
            /\ UNCHANGED crashed
    /\ UNCHANGED <<players, character, player, sendData, sendClosed,
                   UnsafeTempAttributes, callbacks, teardown, mLock, frame, ops>>

\* if err := to.Here().Add(c.ID()); err != nil { log.Fatal(...) }
MoveAdd(t) ==
    /\ Running(t, "move_add")
    /\ UNCHANGED notWorld
    /\ LET f == frame[t]
           r == ContainerAdd(UnsafeObjects[f.to], f.c) IN
       IF r.err # None
       THEN /\ Crash("fatal: error adding character to destination room")
            /\ UNCHANGED <<UnsafeObjects, registry, pc>>
       ELSE /\ UnsafeObjects' = [UnsafeObjects EXCEPT ![f.to] = r.oc]
            /\ registry' = [registry EXCEPT ![f.c] = f.to]
            /\ pc' = [pc EXCEPT ![t] = "move_notify_old"]
            /\ UNCHANGED crashed
    /\ UNCHANGED <<players, character, player, sendData, sendClosed,
                   UnsafeTempAttributes, callbacks, teardown, mLock, frame, ops>>

\* The range expression of a notification loop of Move: the characters
\* Characters(true, except) returns for the room, taken once.
MoveNotify(t, at, next, room, except) ==
    /\ Running(t, at)
    /\ UNCHANGED notWorld
    /\ frame' = [frame EXCEPT ![t].todo =
                    Characters(UnsafeObjects[room], TRUE, except, player)]
    /\ pc' = [pc EXCEPT ![t] = next]
    /\ UNCHANGED <<UnsafeObjects, registry, players, character, player, sendData,
                   sendClosed, UnsafeTempAttributes, callbacks, teardown, mLock,
                   crashed, ops>>

\* char.Player() for the next character of the loop; the loop ends when none
\* is left.
MoveRef(t, at, send, done) ==
    /\ Running(t, at)
    /\ UNCHANGED notWorld
    /\ IF frame[t].todo = <<>>
       THEN /\ pc' = [pc EXCEPT ![t] = done]
            /\ UNCHANGED frame
       ELSE /\ frame' = [frame EXCEPT ![t].p = player[Head(frame[t].todo)]]
            /\ pc' = [pc EXCEPT ![t] = send]
    /\ UNCHANGED <<UnsafeObjects, registry, players, character, player, sendData,
                   sendClosed, UnsafeTempAttributes, callbacks, teardown, mLock,
                   crashed, ops>>

\* A send on the queue of a session that is no longer open.
QueueOpen_Always(s) == TRUE

\* The channel p.sendData is not closed.
QueueOpen(s) == ~sendClosed[s]

\* .client.ShowText(msg) on the session obtained: a nil session and a closed
\* queue panic; otherwise the message is queued and the loop goes on.
MoveSend(t, at, next, kind) ==
    /\ Running(t, at)
    /\ UNCHANGED notWorld
    /\ LET f == frame[t] IN
       IF f.p = None
       THEN /\ Crash("panic: nil player")
            /\ UNCHANGED <<sendData, pc, frame>>
       ELSE IF ~QueueOpen(f.p)
       THEN /\ Crash("panic: send on closed channel")
            /\ UNCHANGED <<sendData, pc, frame>>
       ELSE /\ sendData' = [sendData EXCEPT ![f.p] =
                               Append(@, [kind |-> kind, about |-> f.c])]
            /\ frame' = [frame EXCEPT ![t].p = None,
                                      ![t].todo = IF @ = <<>> THEN @ ELSE Tail(@)]
            /\ pc' = [pc EXCEPT ![t] = next]
            /\ UNCHANGED crashed
    /\ UNCHANGED <<UnsafeObjects, registry, players, character, player, sendClosed,
                   UnsafeTempAttributes, callbacks, teardown, mLock, ops>>

\* for _, char := range oldRoom.Here().Characters(true, nil)
MoveNotifyOld(t) ==
    MoveNotify(t, "move_notify_old", "move_ref_old", frame[t].oldRoom, None)

\* char.Player() in the loop over the old room
MoveRefOld(t) == MoveRef(t, "move_ref_old", "move_send_old", "move_notify_new")

\* .client.ShowText(msgToOld)
MoveSendOld(t) == MoveSend(t, "move_send_old", "move_ref_old", "msgToOld")

\* The loop over the new room with nobody left out of it.
MoveNotifyNew_IncludingMover(t) ==
    MoveNotify(t, "move_notify_new", "move_ref_new", frame[t].to, None)

\* for _, char := range to.Here().Characters(true, c)
MoveNotifyNew(t) ==
    MoveNotify(t, "move_notify_new", "move_ref_new", frame[t].to, frame[t].c)

\* char.Player() in the loop over the new room
MoveRefNew(t) == MoveRef(t, "move_ref_new", "move_send_new", "move_notify_self")

\* .client.ShowText(msgToNew)
MoveSendNew(t) == MoveSend(t, "move_send_new", "move_ref_new", "msgToNew")

\* c.Player()
MoveNotifySelf(t) ==
    /\ Running(t, "move_notify_self")
    /\ UNCHANGED notWorld
    /\ frame' = [frame EXCEPT ![t].p = player[frame[t].c]]
    /\ pc' = [pc EXCEPT ![t] = "move_send_self"]
    /\ UNCHANGED <<UnsafeObjects, registry, players, character, player, sendData,
                   sendClosed, UnsafeTempAttributes, callbacks, teardown, mLock,
                   crashed, ops>>

\* .client.ShowText(msgToChar)
MoveSendSelf(t) == MoveSend(t, "move_send_self", "move_callbacks", "msgToChar")

\* The area callbacks when the areas differ, then CharacterEntered on both rooms.
MoveCallbacks(t) ==
    /\ Running(t, "move_callbacks")
    /\ UNCHANGED notWorld
    /\ LET f == frame[t]
           oldArea == ParentArea(f.oldRoom)
           newArea == ParentArea(f.to)
           area == IF oldArea # newArea
                   THEN << [fn |-> "CharacterLeft", on |-> oldArea, c |-> f.c],
                           [fn |-> "CharacterEntered", on |-> newArea, c |-> f.c] >>
                   ELSE <<>> IN
       callbacks' = callbacks \o area \o
                    << [fn |-> "CharacterEntered", on |-> f.oldRoom, c |-> f.c],
                       [fn |-> "CharacterEntered", on |-> f.to, c |-> f.c] >>
    /\ pc' = [pc EXCEPT ![t] = "idle"]
    /\ frame' = [frame EXCEPT ![t] = NoFrame]
    /\ UNCHANGED <<UnsafeObjects, registry, players, character, player, sendData,
                   sendClosed, UnsafeTempAttributes, teardown, mLock, crashed, ops>>

\* ------------------------------------------------------------------ PlayerManager.DisconnectPlayer

\* m.Lock(); if !m.players[p] { return }: the call of a session that is not in
\* the manager returns at once, releasing the lock.
DisconnectNoop(t, s) ==
    /\ Idle(t)
    /\ UNCHANGED notWorld
    /\ mLock = None
    /\ ~IsPlayer(s)
    /\ ops' = ops + 1
    /\ teardown' = [teardown EXCEPT ![s].noop = @ + 1]
    /\ UNCHANGED <<UnsafeObjects, registry, players, character, player, sendData,
                   sendClosed, UnsafeTempAttributes, callbacks, mLock, pc, frame, crashed>>

\* m.Lock(); the session is in the manager: teardown starts under the lock.
DisconnectBegin(t, s) ==
    /\ Idle(t)
    /\ UNCHANGED notWorld
    /\ mLock = None
    /\ IsPlayer(s)
    /\ ops' = ops + 1
    /\ mLock' = t
    /\ frame' = [frame EXCEPT ![t] = [NoFrame EXCEPT !.p = s]]
    /\ pc' = [pc EXCEPT ![t] = "disc_logout"]
    /\ UNCHANGED <<UnsafeObjects, registry, players, character, player, sendData,
                   sendClosed, UnsafeTempAttributes, callbacks, teardown, crashed>>

\* if p.character != nil { p.character.LoggedOut() ... }: Character.LoggedOut
\* notifies the others in the room, fires the leave callbacks and clears the
\* temp attributes.
DisconnectLoggedOut(t) ==
    /\ Running(t, "disc_logout")
    /\ UNCHANGED notWorld
    /\ LET s == frame[t].p
           c == character[s] IN
       IF c = None
       THEN /\ pc' = [pc EXCEPT ![t] = "disc_close"]
            /\ UNCHANGED <<sendData, callbacks, UnsafeTempAttributes, teardown, crashed>>
       ELSE IF Room(c) = None
       THEN /\ Crash("panic: nil room")
            /\ UNCHANGED <<sendData, callbacks, UnsafeTempAttributes, teardown, pc>>
       ELSE LET room == Room(c)
                cs == Characters(UnsafeObjects[room], TRUE, c, player) IN
            IF SendsToClosed(cs, player)
            THEN /\ Crash("panic: send on closed channel")
                 /\ UNCHANGED <<sendData, callbacks, UnsafeTempAttributes, teardown, pc>>
            ELSE /\ sendData' = ShowTextAll(sendData, cs, player,
                                            [kind |-> "disconnected", about |-> c])
                 /\ callbacks' = callbacks \o
                       << [fn |-> "CharacterLeft", on |-> ParentArea(room), c |-> c],
                          [fn |-> "CharacterLeft", on |-> room, c |-> c] >>
                 /\ UnsafeTempAttributes' = [UnsafeTempAttributes EXCEPT ![c] = EmptyMap]
                 /\ teardown' = [teardown EXCEPT ![s].logout = @ + 1]
                 /\ pc' = [pc EXCEPT ![t] = "disc_detach"]
                 /\ UNCHANGED crashed
    /\ UNCHANGED <<UnsafeObjects, registry, players, character, player, sendClosed,
                   mLock, frame, ops>>

\* A detach that unsets the session's character only.
DisconnectDetach_SessionOnly(t) ==
    /\ Running(t, "disc_detach")
    /\ UNCHANGED notWorld
    /\ LET s == frame[t].p IN
       /\ character' = [character EXCEPT ![s] = None]
       /\ teardown' = [teardown EXCEPT ![s].detach = @ + 1]
    /\ pc' = [pc EXCEPT ![t] = "disc_close"]
    /\ UNCHANGED <<UnsafeObjects, registry, players, player, sendData, sendClosed,
                   UnsafeTempAttributes, callbacks, mLock, frame, crashed, ops>>

\* p.character.SetPlayer(nil); p.AttachCharacter(nil)
DisconnectDetach(t) ==
    /\ Running(t, "disc_detach")
    /\ UNCHANGED notWorld
    /\ LET s == frame[t].p IN
       /\ player' = [player EXCEPT ![character[s]] = None]
       /\ character' = [character EXCEPT ![s] = None]
       /\ teardown' = [teardown EXCEPT ![s].detach = @ + 1]
    /\ pc' = [pc EXCEPT ![t] = "disc_close"]
    /\ UNCHANGED <<UnsafeObjects, registry, players, sendData, sendClosed,
                   UnsafeTempAttributes, callbacks, mLock, frame, crashed, ops>>

\* p.socket.Close(); close(p.sendData); delete(m.players, p); the deferred
\* m.Unlock(). Closing a closed channel panics.
DisconnectClose(t) ==
    /\ Running(t, "disc_close")
    /\ UNCHANGED notWorld
    /\ LET s == frame[t].p IN
       IF sendClosed[s]
       THEN /\ teardown' = [teardown EXCEPT ![s].socket = @ + 1]
            /\ Crash("panic: close of closed channel")
            /\ UNCHANGED <<sendClosed, players, mLock, pc, frame>>
       ELSE /\ teardown' = [teardown EXCEPT ![s].socket = @ + 1, ![s].queue = @ + 1,
                                            ![s].removed = @ + 1]
            /\ sendClosed' = [sendClosed EXCEPT ![s] = TRUE]
            /\ players' = players \ {s}
            /\ mLock' = None
            /\ pc' = [pc EXCEPT ![t] = "idle"]
            /\ frame' = [frame EXCEPT ![t] = NoFrame]
            /\ UNCHANGED crashed
    /\ UNCHANGED <<UnsafeObjects, registry, character, player, sendData,
                   UnsafeTempAttributes, callbacks, ops>>

NextWorld ==
    \/ \E t \in Tasks, c \in Chars, to \in Rooms : MoveBegin(t, c, to)
    \/ \E t \in Tasks : MoveRemove(t)
    \/ \E t \in Tasks : MoveAdd(t)
    \/ \E t \in Tasks : MoveNotifyOld(t)
    \/ \E t \in Tasks : MoveRefOld(t)
    \/ \E t \in Tasks : MoveSendOld(t)
    \/ \E t \in Tasks : MoveNotifyNew(t)
    \/ \E t \in Tasks : MoveRefNew(t)
    \/ \E t \in Tasks : MoveSendNew(t)
    \/ \E t \in Tasks : MoveNotifySelf(t)
    \/ \E t \in Tasks : MoveSendSelf(t)
    \/ \E t \in Tasks : MoveCallbacks(t)
    \/ \E t \in Tasks, s \in Sessions : DisconnectNoop(t, s)
    \/ \E t \in Tasks, s \in Sessions : DisconnectBegin(t, s)
    \/ \E t \in Tasks : DisconnectLoggedOut(t)
    \/ \E t \in Tasks : DisconnectDetach(t)
    \/ \E t \in Tasks : DisconnectClose(t)

SpecWorld == Init /\ [][NextWorld]_vars

\* ------------------------------------------------------------------ attribute calls

\* The character the attribute calls of SpecAttr are made on.
AttrChar == "c1"

\* c.SetAttribute(n, v), under c.Lock()
CharSetAttribute(c, n, v) ==
    /\ calls < MaxCalls
    /\ calls' = calls + 1
    /\ LET r == CharacterSetAttribute(UnsafeAttributes[c], n, v) IN
       /\ UnsafeAttributes' = [UnsafeAttributes EXCEPT ![c] = r.m]
       /\ lastCall' = [fn |-> "SetAttribute", kind |-> "character", ent |-> c,
                       name |-> n, value |-> v, err |-> r.err, ret |-> <<>>]
    /\ UNCHANGED <<worldVars, cmdVars, lockVars, iiAttributes, itemAttributes>>

\* c.Attribute(n), under c.RLock()
CharAttribute(c, n) ==
    /\ calls < MaxCalls
    /\ calls' = calls + 1
    /\ lastCall' = [fn |-> "Attribute", kind |-> "character", ent |-> c,
                    name |-> n, value |-> <<>>, err |-> None,
                    ret |-> CharacterAttribute(UnsafeAttributes[c], n)]
    /\ UNCHANGED <<worldVars, cmdVars, lockVars, UnsafeAttributes, iiAttributes, itemAttributes>>

\* ii.SetAttribute(n, v), under ii.Lock()
ItemSetAttribute(n, v) ==
    /\ calls < MaxCalls
    /\ calls' = calls + 1
    /\ LET r == ItemInstanceSetAttribute(iiAttributes, n, v) IN
       /\ iiAttributes' = r.ii
       /\ lastCall' = [fn |-> "SetAttribute", kind |-> "item", ent |-> "ii",
                       name |-> n, value |-> v, err |-> r.err, ret |-> <<>>]
    /\ UNCHANGED <<worldVars, cmdVars, lockVars, UnsafeAttributes, itemAttributes>>

\* ii.Attribute(n), under ii.RLock()
ItemGetAttribute(n) ==
    /\ calls < MaxCalls
    /\ calls' = calls + 1
    /\ lastCall' = [fn |-> "Attribute", kind |-> "item", ent |-> "ii",
                    name |-> n, value |-> <<>>, err |-> None,
                    ret |-> ItemInstanceAttribute(iiAttributes, n)]
    /\ UNCHANGED <<worldVars, cmdVars, lockVars, UnsafeAttributes, iiAttributes, itemAttributes>>

NextAttr ==
    \/ \E n \in AttrNames, v \in AttrValues : ItemSetAttribute(n, v)
    \/ \E n \in AttrNames : ItemGetAttribute(n)
    \/ \E n \in AttrNames, v \in AttrValues : CharSetAttribute(AttrChar, n, v)
    \/ \E n \in AttrNames : CharAttribute(AttrChar, n)

SpecAttr == Init /\ [][NextAttr]_vars

\* ------------------------------------------------------------------ command steps

\* A session's task reads a line and calls ProcessCommand on it.
CmdSubmit ==
    /\ cmdPc = "idle"
    /\ crashed = None
    /\ cmdPc' = "process"
    /\ \E s \in Typists, line \in InputLines :
          /\ cmdSession' = s
          /\ cmdInput' = line
          /\ cmdLine' = line
    /\ UNCHANGED <<cmdAlias, cmdFound, cmdLog, cmdCalls, worldVars, attrVars, lockVars>>

\* One call of ProcessCommand on cmdLine: it returns on an empty line, shows
\* the channel or resolution error, calls itself on the alias, or logs the
\* invocation and goes on to the handler.
CmdProcess ==
    /\ cmdPc = "process"
    /\ crashed = None
    /\ LET s == cmdSession
           r == ProcessOnce(s, cmdLine) IN
       /\ cmdFound' = r.found
       /\ CASE r.kind = "empty" ->
                 /\ cmdPc' = "done"
                 /\ UNCHANGED <<sendData, cmdLine, cmdAlias, cmdLog, crashed>>
            [] r.kind \in {"channel", "error"} ->
                 /\ sendData' = [sendData EXCEPT ![s] = Append(@, r.msg)]
                 /\ cmdPc' = "done"
                 /\ UNCHANGED <<cmdLine, cmdAlias, cmdLog, crashed>>
            [] r.kind = "panic" ->
                 /\ Crash("panic: nil pointer or slice bounds in FindCommand")
                 /\ cmdPc' = "panic"
                 /\ UNCHANGED <<sendData, cmdLine, cmdAlias, cmdLog>>
            [] r.kind = "alias" ->
                 /\ cmdLine' = r.next
                 /\ cmdAlias' = IF cmdAlias = <<>> THEN r.found.cmd.Alias ELSE cmdAlias
                 /\ UNCHANGED <<sendData, cmdPc, cmdLog, crashed>>
            [] r.kind = "invoke" ->
                 /\ cmdLog' = Append(cmdLog, LogCtx(r.found.cmd, r.found.args, character[s]))
                 /\ cmdPc' = "handler"
                 /\ UNCHANGED <<sendData, cmdLine, cmdAlias, crashed>>
    /\ UNCHANGED <<cmdSession, cmdInput, cmdCalls, attrVars, lockVars>>
    /\ UNCHANGED <<UnsafeObjects, registry, players, character, player, sendClosed,
                   UnsafeTempAttributes, callbacks, teardown, mLock, pc, frame, ops>>

\* cmd.Handler(ctx)
CmdHandler ==
    /\ cmdPc = "handler"
    /\ crashed = None
    /\ cmdCalls' = Append(cmdCalls,
                     [command |-> cmdFound.cmd.Id, args |-> cmdFound.args,
                      session |-> cmdSession, character |-> character[cmdSession]])
    /\ cmdPc' = "done"
    /\ UNCHANGED <<cmdSession, cmdInput, cmdLine, cmdAlias, cmdFound, cmdLog,
                   worldVars, attrVars, lockVars>>

NextCmd ==
    \/ CmdSubmit
    \/ CmdProcess
    \/ CmdHandler

SpecCmd == Init /\ [][NextCmd]_vars

\* ------------------------------------------------------------------ lock steps

At(t, at) == lpc[t] = at /\ crashed = None

Goto(t, next) == lpc' = [lpc EXCEPT ![t] = next]

\* The entity a character-side step of task t works on.
Subject(t) == LockChar

\* A task calls a method of the item instance or of the character.
LBegin(t, call) ==
    /\ At(t, "idle")
    /\ lops < MaxLockOps
    /\ lops' = lops + 1
    /\ lcall' = [lcall EXCEPT ![t] = call]
    /\ Goto(t, FirstStep(call.fn))
    /\ UNCHANGED <<notLock, rwReaders, rwWriter, rwWaiting, UnsafeLocationType,
                   Location, UnsafeCharacter, iiAttributes, UnsafeTempAttributes,
                   crashed>>

\* The RLock() calls: the entity locked and the step that follows.
RLockSite(t) ==
    CASE lpc[t] = "attr_rlock" -> [e |-> "ii", next |-> "attr_read"]
      [] lpc[t] = "parent_rlock" -> [e |-> "ii", next |-> "parent_runlock"]
      [] lpc[t] = "item_rlock" -> [e |-> "item", next |-> "item_read"]
      [] lpc[t] = "name_rlock" -> [e |-> Subject(t), next |-> "name_runlock"]
      [] lpc[t] = "ta_rlock" -> [e |-> Subject(t), next |-> "ta_read"]
      [] OTHER -> [e |-> None, next |-> None]

\* The RUnlock() calls.
RUnlockSite(t) ==
    CASE lpc[t] = "parent_runlock" -> [e |-> "ii", next |-> "item_rlock"]
      [] lpc[t] = "item_runlock" -> [e |-> "item", next |-> "attr_runlock"]
      [] lpc[t] = "attr_runlock" -> [e |-> "ii", next |-> "idle"]
      [] lpc[t] = "name_runlock" -> [e |-> Subject(t), next |-> "sc_write"]
      [] lpc[t] = "ta_runlock" -> [e |-> Subject(t), next |-> "idle"]
      [] OTHER -> [e |-> None, next |-> None]

\* The Lock() calls, the step in which the call waits and the step that
\* follows it.
LockSite(t) ==
    CASE lpc[t] \in {"set_lock", "set_wait"} ->
             [e |-> "ii", wait |-> "set_wait", next |-> "set_write"]
      [] lpc[t] \in {"slt_lock", "slt_wait"} ->
             [e |-> "ii", wait |-> "slt_wait", next |-> "slt_write"]
      [] lpc[t] \in {"sc_lock", "sc_wait"} ->
             [e |-> "ii", wait |-> "sc_wait", next |-> "sc_type"]
      [] lpc[t] \in {"sta_lock", "sta_wait"} ->
             [e |-> Subject(t), wait |-> "sta_wait", next |-> "sta_write"]
      [] OTHER -> [e |-> None, wait |-> None, next |-> None]

\* The Unlock() calls.
UnlockSite(t) ==
    CASE lpc[t] \in {"set_unlock", "slt_unlock", "sc_unlock"} -> [e |-> "ii", next |-> "idle"]
      [] lpc[t] = "sta_unlock" -> [e |-> Subject(t), next |-> "idle"]
      [] OTHER -> [e |-> None, next |-> None]

\* No task reads the entity's fields under its lock.
NoReaders(e) == \A u \in Tasks : rwReaders[e][u] = 0

\* RWMutex.RLock: it returns when no writer holds the lock and none is
\* blocked in Lock(); a read lock the task itself already holds does not
\* let it pass a blocked writer.
RWMutexRLock(t) ==
    /\ crashed = None
    /\ LET site == RLockSite(t) IN
       /\ site.e # None
       /\ rwWriter[site.e] = None
       /\ rwWaiting[site.e] = {}
       /\ rwReaders' = [rwReaders EXCEPT ![site.e][t] = @ + 1]
       /\ Goto(t, site.next)
    /\ UNCHANGED <<notLock, rwWriter, rwWaiting, UnsafeLocationType, Location,
                   UnsafeCharacter, lcall, lops, iiAttributes, UnsafeTempAttributes,
                   crashed>>

\* RWMutex.RUnlock
RWMutexRUnlock(t) ==
    /\ crashed = None
    /\ LET site == RUnlockSite(t) IN
       /\ site.e # None
       /\ rwReaders' = [rwReaders EXCEPT ![site.e][t] = @ - 1]
       /\ Goto(t, site.next)
    /\ UNCHANGED <<notLock, rwWriter, rwWaiting, UnsafeLocationType, Location,
                   UnsafeCharacter, lcall, lops, iiAttributes, UnsafeTempAttributes,
                   crashed>>

\* RWMutex.Lock is called: from now on the call blocks new readers.
RWMutexLock(t) ==
    /\ crashed = None
    /\ LET site == LockSite(t) IN
       /\ site.e # None
       /\ lpc[t] # site.wait
       /\ rwWaiting' = [rwWaiting EXCEPT ![site.e] = @ \cup {t}]
       /\ Goto(t, site.wait)
    /\ UNCHANGED <<notLock, rwReaders, rwWriter, UnsafeLocationType, Location,
                   UnsafeCharacter, lcall, lops, iiAttributes, UnsafeTempAttributes,
                   crashed>>

\* RWMutex.Lock returns: no reader and no writer holds the lock.
RWMutexLocked(t) ==
    /\ crashed = None
    /\ LET site == LockSite(t) IN
       /\ site.e # None
       /\ lpc[t] = site.wait
       /\ rwWriter[site.e] = None
       /\ NoReaders(site.e)
       /\ rwWriter' = [rwWriter EXCEPT ![site.e] = t]
       /\ rwWaiting' = [rwWaiting EXCEPT ![site.e] = @ \ {t}]
       /\ Goto(t, site.next)
    /\ UNCHANGED <<notLock, rwReaders, UnsafeLocationType, Location,
                   UnsafeCharacter, lcall, lops, iiAttributes, UnsafeTempAttributes,
                   crashed>>

\* RWMutex.Unlock
RWMutexUnlock(t) ==
    /\ crashed = None
    /\ LET site == UnlockSite(t) IN
       /\ site.e # None
       /\ rwWriter' = [rwWriter EXCEPT ![site.e] = None]
       /\ Goto(t, site.next)
    /\ UNCHANGED <<notLock, rwReaders, rwWaiting, UnsafeLocationType, Location,
                   UnsafeCharacter, lcall, lops, iiAttributes, UnsafeTempAttributes,
                   crashed>>

\* ItemInstance.Attribute: if len(ii.UnsafeAttributes[name]) == 0 { return
\* ii.Parent().Attribute(name) }; return ii.UnsafeAttributes[name]
AttributeRead(t) ==
    /\ At(t, "attr_read")
    /\ LET overlay == MapGet(iiAttributes.m, lcall[t].name) IN
       IF Len(overlay) = 0
       THEN /\ Goto(t, "parent_rlock")
            /\ UNCHANGED lcall
       ELSE /\ lcall' = [lcall EXCEPT ![t].ret = overlay]
            /\ Goto(t, "attr_runlock")
    /\ UNCHANGED <<notLock, rwReaders, rwWriter, rwWaiting, UnsafeLocationType,
                   Location, UnsafeCharacter, lops, iiAttributes,
                   UnsafeTempAttributes, crashed>>

\* Item.Attribute of the parent, under the parent's read lock.
ItemAttributeRead(t) ==
    /\ At(t, "item_read")
    /\ lcall' = [lcall EXCEPT ![t].ret = ItemAttribute(lcall[t].name)]
    /\ Goto(t, "item_runlock")
    /\ UNCHANGED <<notLock, rwReaders, rwWriter, rwWaiting, UnsafeLocationType,
                   Location, UnsafeCharacter, lops, iiAttributes,
                   UnsafeTempAttributes, crashed>>

\* ItemInstance.SetAttribute between Lock and Unlock.
SetAttributeWrite(t) ==
    /\ At(t, "set_write")
    /\ iiAttributes' =
          ItemInstanceSetAttribute(iiAttributes, lcall[t].name, lcall[t].value).ii
    /\ Goto(t, "set_unlock")
    /\ UNCHANGED <<notLock, rwReaders, rwWriter, rwWaiting, UnsafeLocationType,
                   Location, UnsafeCharacter, lcall, lops, UnsafeTempAttributes,
                   crashed>>

\* ii.UnsafeLocationType = t
SetLocationType(t) ==
    /\ At(t, "slt_write")
    /\ UnsafeLocationType' = lcall[t].ty
    /\ Goto(t, "slt_unlock")
    /\ UNCHANGED <<notLock, rwReaders, rwWriter, rwWaiting, Location,
                   UnsafeCharacter, lcall, lops, iiAttributes, UnsafeTempAttributes,
                   crashed>>

\* SetCharacter: ii.UnsafeLocationType = ItemLocationCharacter, then the
\* call of c.Name()
SetCharacterType(t) ==
    /\ At(t, "sc_type")
    /\ UnsafeLocationType' = ItemLocationCharacter
    /\ Goto(t, "name_rlock")
    /\ UNCHANGED <<notLock, rwReaders, rwWriter, rwWaiting, Location,
                   UnsafeCharacter, lcall, lops, iiAttributes, UnsafeTempAttributes,
                   crashed>>

\* SetCharacter: ii.UnsafeCharacter = the name c.Name() returned
SetCharacter(t) ==
    /\ At(t, "sc_write")
    /\ UnsafeCharacter' = Subject(t)
    /\ Goto(t, "sc_unlock")
    /\ UNCHANGED <<notLock, rwReaders, rwWriter, rwWaiting, UnsafeLocationType,
                   Location, lcall, lops, iiAttributes, UnsafeTempAttributes,
                   crashed>>

\* Another task is inside the range loop of LoggedOut over the character's
\* temp attributes.
Clearing(t) == \E u \in Tasks \ {t} : lpc[u] = "lo_clear"

\* Another task is at its access to the temp attributes inside
\* SetTempAttribute or TempAttribute.
Accessing(t) == \E u \in Tasks \ {t} : lpc[u] \in {"sta_write", "ta_read"}

\* What the Go runtime does when it detects unsynchronised map access.
ConcurrentMapAccess == "fatal error: concurrent map iteration and map write"

\* LoggedOut reaches "for key, _ := range c.UnsafeTempAttributes".
LoggedOutRange(t) ==
    /\ At(t, "lo_range")
    /\ Goto(t, "lo_clear")
    /\ UNCHANGED <<notLock, rwReaders, rwWriter, rwWaiting, UnsafeLocationType,
                   Location, UnsafeCharacter, lcall, lops, iiAttributes,
                   UnsafeTempAttributes, crashed>>

\* delete(c.UnsafeTempAttributes, key) for the next key of the range, in
\* the order the map yields; the loop ends when no key is left. With another
\* task at its access to the map the runtime may end the process.
LoggedOutDelete(t) ==
    /\ At(t, "lo_clear")
    /\ LET m == UnsafeTempAttributes[Subject(t)] IN
       IF DOMAIN m = {}
       THEN /\ Goto(t, "idle")
            /\ UNCHANGED <<UnsafeTempAttributes, crashed>>
       ELSE \/ /\ \E key \in DOMAIN m :
                     UnsafeTempAttributes' =
                        [UnsafeTempAttributes EXCEPT ![Subject(t)] =
                            [k \in DOMAIN m \ {key} |-> m[k]]]
               /\ UNCHANGED <<lpc, crashed>>
            \/ /\ Accessing(t)
               /\ Crash(ConcurrentMapAccess)
               /\ UNCHANGED <<lpc, UnsafeTempAttributes>>
    /\ UNCHANGED <<notLock, rwReaders, rwWriter, rwWaiting, UnsafeLocationType,
                   Location, UnsafeCharacter, lcall, lops, iiAttributes>>

\* c.UnsafeTempAttributes[name] = value, under c.Lock()
SetTempAttribute(t) ==
    /\ At(t, "sta_write")
    /\ \/ /\ UnsafeTempAttributes' =
                [UnsafeTempAttributes EXCEPT ![Subject(t)] =
                    MapSet(@, lcall[t].name, lcall[t].value)]
          /\ Goto(t, "sta_unlock")
          /\ UNCHANGED crashed
       \/ /\ Clearing(t)
          /\ Crash(ConcurrentMapAccess)
          /\ UNCHANGED <<lpc, UnsafeTempAttributes>>
    /\ UNCHANGED <<notLock, rwReaders, rwWriter, rwWaiting, UnsafeLocationType,
                   Location, UnsafeCharacter, lcall, lops, iiAttributes>>

\* return c.UnsafeTempAttributes[name], under c.RLock()
TempAttribute(t) ==
    /\ At(t, "ta_read")
    /\ \/ /\ lcall' = [lcall EXCEPT ![t].ret =
                            MapGet(UnsafeTempAttributes[Subject(t)], lcall[t].name)]
          /\ Goto(t, "ta_runlock")
          /\ UNCHANGED crashed
       \/ /\ Clearing(t)
          /\ Crash(ConcurrentMapAccess)
          /\ UNCHANGED <<lpc, lcall>>
    /\ UNCHANGED <<notLock, rwReaders, rwWriter, rwWaiting, UnsafeLocationType,
                   Location, UnsafeCharacter, lops, iiAttributes,
                   UnsafeTempAttributes>>

\* The steps of task t.
LockStep(t) ==
    \/ \E call \in LockCalls : LBegin(t, call)
    \/ RWMutexRLock(t)
    \/ RWMutexRUnlock(t)
    \/ RWMutexLock(t)
    \/ RWMutexLocked(t)
    \/ RWMutexUnlock(t)
    \/ AttributeRead(t)
    \/ ItemAttributeRead(t)
    \/ SetAttributeWrite(t)
    \/ SetLocationType(t)
    \/ SetCharacterType(t)
    \/ SetCharacter(t)
    \/ LoggedOutRange(t)
    \/ LoggedOutDelete(t)
    \/ SetTempAttribute(t)
    \/ TempAttribute(t)

NextLock == \E t \in Tasks : LockStep(t)

SpecLock == Init /\ [][NextLock]_vars

\* Every task that can take a step of the method it is in takes it: the Go
\* scheduler runs each runnable goroutine.
SpecLockLive == SpecLock /\ \A t \in Tasks : WF_vars(LockStep(t))

\* ------------------------------------------------------------------ claims on SpecWorld

RoomsHolding(c) == {r \in Rooms : ContainerHas(UnsafeObjects[r], c)}

\* The Move of task t has had its Add to the destination rejected.
AddFailed(t) ==
    /\ pc[t] = "move_add"
    /\ crashed = "fatal: error adding character to destination room"
    /\ ContainerAdd(UnsafeObjects[frame[t].to], frame[t].c).err # None

\* C1: when the Add to the destination container fails, the moved character
\* is a member of the source room again and is not left outside every
\* container.
C1_RestoredToSource ==
    \A t \in Tasks :
        AddFailed(t) => ContainerHas(UnsafeObjects[frame[t].oldRoom], frame[t].c)

\* C2: under every interleaving of Move calls, also two Moves of one
\* character, an entity identifier is a member of at most one container.
C2_AtMostOneContainer ==
    \A c \in Chars : Cardinality(RoomsHolding(c)) <= 1

\* Task t is inside DisconnectPlayer for session s.
Disconnecting(s) ==
    \E t \in Tasks : pc[t] \in {"disc_logout", "disc_detach", "disc_close"} /\ frame[t].p = s

\* The teardown effects of session s so far: none has run twice; once the
\* session has been disconnected each has run exactly once (the logout and
\* the detach when a character was attached); a call has returned as a no-op
\* only for a session already removed.
TornDownOnce(s) ==
    LET td == teardown[s]
        had == IF InitCharacter(s) = None THEN 0 ELSE 1 IN
    /\ td.logout <= 1 /\ td.detach <= 1 /\ td.socket <= 1
    /\ td.queue <= 1 /\ td.removed <= 1
    /\ (~IsPlayer(s) /\ ~Disconnecting(s)) =>
           /\ td.socket = 1 /\ td.queue = 1 /\ td.removed = 1
           /\ td.logout = had /\ td.detach = had
           /\ sendClosed[s] /\ character[s] = None
    /\ td.noop > 0 => (td.removed = 1 /\ ~IsPlayer(s))

\* A DisconnectPlayer call for s returns at the guard in this step.
ReturnsAtGuard(s) == teardown'[s].noop = teardown[s].noop + 1

\* C3: DisconnectPlayer is idempotent: every teardown effect of a session
\* (logout, detach, connection close, queue close, removal from the session
\* set) runs exactly once however many calls are made for it, sequentially
\* or from two tasks, and a call after the first changes no state of the
\* sessions, the characters or the containers.
C3_DisconnectOnce ==
    /\ [](\A s \in Sessions : TornDownOnce(s))
    /\ [][\A s \in Sessions : ReturnsAtGuard(s) =>
            UNCHANGED <<UnsafeObjects, registry, players, character, player,
                        sendData, sendClosed, UnsafeTempAttributes, callbacks,
                        mLock, crashed>>]_vars

\* A second DisconnectPlayer call for a session with a character has returned
\* after the first one tore the session down.
C3_SecondCallMade ==
    \E s \in Sessions :
        /\ InitCharacter(s) # None
        /\ teardown[s].noop = 1
        /\ teardown[s].removed = 1
        /\ teardown[s].logout = 1

\* ------------------------------------------------------------------ claims on SpecAttr

\* What Attribute(n) returns on the entity of the given kind, given the
\* character maps ua and the instance map ii.
AttributeIn(ua, ii, kind, n) ==
    IF kind = "character" THEN CharacterAttribute(ua[AttrChar], n)
    ELSE ItemInstanceAttribute(ii, n)

\* What Attribute(n) returns now.
AttributeNow(kind, n) == AttributeIn(UnsafeAttributes, iiAttributes, kind, n)

Whitelist(kind) ==
    IF kind = "character" THEN ValidCharacterAttributes ELSE ValidItemAttributes

\* What Attribute(n) returns for an entity that stores nothing for n.
Fallback(kind, n) ==
    IF kind = "character" THEN CharacterAttributeDefault(n) ELSE ItemAttribute(n)

\* The call made last was SetAttribute with a whitelisted name.
ValidSetMade == lastCall.fn = "SetAttribute" /\ lastCall.name \in Whitelist(lastCall.kind)

\* C4 as stated: for every whitelisted name n and every value v, the empty
\* string included, SetAttribute(n, v) succeeds and the Attribute(n) that
\* follows returns exactly v.
C4_SetThenGetAnyValue ==
    ValidSetMade =>
        /\ lastCall.err = None
        /\ AttributeNow(lastCall.kind, lastCall.name) = lastCall.value

\* C4 as amended: for every whitelisted name n, SetAttribute(n, v) succeeds;
\* the Attribute(n) that follows returns v when v is not empty, and for the
\* empty v the kind's default (Character) or the parent Item's value
\* (ItemInstance).
C4_SetThenGet ==
    ValidSetMade =>
        /\ lastCall.err = None
        /\ AttributeNow(lastCall.kind, lastCall.name) =
              IF lastCall.value # <<>> THEN lastCall.value
              ELSE Fallback(lastCall.kind, lastCall.name)

\* A non-empty value has been set over a different value of the template,
\* and an empty one over a non-empty fallback.
C4_Shadowed ==
    /\ ValidSetMade
    /\ lastCall.kind = "item"
    /\ lastCall.value # <<>>
    /\ ItemAttribute(lastCall.name) # <<>>
    /\ ItemAttribute(lastCall.name) # lastCall.value

\* C5: for every name outside the whitelist of the entity's kind,
\* SetAttribute returns the invalid-attribute error and every Attribute
\* lookup on the entity returns what it returned before the call.
C5_InvalidNameRejected ==
    [][(lastCall'.fn = "SetAttribute" /\ calls' = calls + 1
        /\ lastCall'.name \notin Whitelist(lastCall'.kind)) =>
          /\ lastCall'.err = ErrInvalidAttribute
          /\ \A n \in AttrNames :
                AttributeIn(UnsafeAttributes', iiAttributes', lastCall'.kind, n)
                    = AttributeNow(lastCall'.kind, n)]_vars

\* An invalid name has been rejected on an entity that stores attributes.
C5_RejectedOnStored ==
    /\ lastCall.fn = "SetAttribute"
    /\ lastCall.kind = "item"
    /\ lastCall.name \notin ValidItemAttributes
    /\ lastCall.err = ErrInvalidAttribute
    /\ DOMAIN iiAttributes.m # {}

\* ------------------------------------------------------------------ claims on SpecCmd

Last(seq) == seq[Len(seq)]

\* The ProcessCommand call of the typed line has ended or reached its handler.
Resolved == cmdPc \in {"handler", "done", "panic"}

\* What a ProcessCommand call of line by session s comes to, following at
\* most hops alias targets: the handler and arguments, the text shown, or a
\* panic.
RECURSIVE Outcome(_, _, _)
Outcome(s, line, hops) ==
    LET r == ProcessOnce(s, line)
        out == [kind |-> r.kind, msg |-> r.msg, cmd |-> None, args |-> EmptyMap] IN
    CASE r.kind = "alias" ->
           IF hops = 0 THEN [out EXCEPT !.kind = "unfinished"]
           ELSE Outcome(s, r.next, hops - 1)
      [] r.kind = "invoke" -> [out EXCEPT !.cmd = r.found.cmd.Id, !.args = r.found.args]
      [] r.kind \in {"channel", "error"} -> [out EXCEPT !.kind = "text"]
      [] OTHER -> out

\* What the call of the typed line has come to in the current state.
Observed ==
    LET out == [kind |-> "empty", msg |-> NoMsg, cmd |-> None, args |-> EmptyMap] IN
    CASE cmdPc = "panic" -> [out EXCEPT !.kind = "panic"]
      [] cmdPc = "handler" ->
           [out EXCEPT !.kind = "invoke", !.cmd = cmdFound.cmd.Id, !.args = cmdFound.args]
      [] cmdPc = "done" /\ cmdCalls # <<>> ->
           [out EXCEPT !.kind = "invoke", !.cmd = Last(cmdCalls).command,
                       !.args = Last(cmdCalls).args]
      [] cmdPc = "done" /\ cmdCalls = <<>> /\ sendData[cmdSession] # <<>> ->
           [out EXCEPT !.kind = "text", !.msg = Last(sendData[cmdSession])]
      [] OTHER -> out

\* C6: a line that resolves to a command with alias target S comes to what S
\* entered directly by the same session comes to: the same handler with the
\* same arguments, the same text shown, or the same failure, the permissions
\* of the target being those of the invoking session.
C6_AliasAsTyped ==
    (Resolved /\ cmdAlias # <<>>) =>
        LET direct == Outcome(cmdSession, cmdAlias, MaxAliasHops) IN
        direct.kind # "unfinished" => Observed = direct

\* An alias line was typed by a session with a character, and the handler of
\* its target "channel say" has run with the target's own arguments.
C6_AliasDispatched ==
    /\ cmdPc = "done"
    /\ cmdInput = Lit.ga \o <<" ">> \o Lit.hello
    /\ cmdAlias = Lit.gaTarget
    /\ Len(cmdCalls) = 1
    /\ cmdCalls[1].command = "channel say"
    /\ cmdCalls[1].character = "c1"
    /\ MapGet(cmdCalls[1].args, Lit.channel) = Lit.general
    /\ MapGet(cmdCalls[1].args, Lit.text) = Lit.hello

\* The ids of the first n commands of list.
Ids(list, n) == [i \in 1..n |-> list[i].Id]

\* Whether the command matched on the way down the tree for sections fails
\* its permission predicate for s, and the commands compared up to it.
RECURSIVE DeniedOnPath(_, _, _, _)
DeniedOnPath(s, list, sections, ex) ==
    LET hits == {i \in 1..Len(list) : Matches(list[i], CmdName(sections))} IN
    IF hits = {} THEN [denied |-> FALSE, examined |-> ex]
    ELSE LET cmd == list[Min(hits)]
             seen == ex \o Ids(list, Min(hits)) IN
         IF CheckPermissions(cmd, s) = "false" THEN [denied |-> TRUE, examined |-> seen]
         ELSE IF CheckPermissions(cmd, s) = "true" /\ cmd.Subcommands # <<>>
                 /\ Len(sections) > 1
         THEN DeniedOnPath(s, cmd.Subcommands, Tail(sections), seen)
         ELSE [denied |-> FALSE, examined |-> seen]

\* C7: when the command matched at some level fails its permission predicate
\* for the invoking session, the resolution returns the permission-denied
\* text with no command and no arguments, has compared no command after the
\* matched one (no child, no later sibling), and the call ends there: the
\* text is shown, nothing is logged and no handler runs.
C7_DenialEndsResolution ==
    [][ LET r == ProcessOnce(cmdSession, cmdLine)
            d == DeniedOnPath(cmdSession, Commands, Fields(r.resolved), <<>>) IN
        (cmdPc = "process" /\ r.resolved # <<>> /\ d.denied) =>
            /\ cmdFound' = Found(NoCmd, EmptyMap, Text(CommandErrNoPerms), FALSE, d.examined)
            /\ cmdPc' = "done"
            /\ sendData' = [sendData EXCEPT
                               ![cmdSession] = Append(@, Text(CommandErrNoPerms))]
            /\ UNCHANGED <<cmdLog, cmdCalls>> ]_vars

\* A character without the permission typed "channel list": the parent was
\* allowed, the child denied, and the call ended with the denial.
C7_ChildDenied ==
    /\ cmdPc = "done"
    /\ cmdSession = "s1"
    /\ cmdInput = Lit.channel \o <<" ">> \o Lit.list
    /\ cmdFound.msg = Text(CommandErrNoPerms)
    /\ cmdFound.examined =
          <<"look", "say", "talk", "channel", "channel say", "channel list">>
    /\ cmdCalls = <<>>

\* Every command of a tree, at any depth.
RECURSIVE Flatten(_)
Flatten(list) ==
    IF list = <<>> THEN {}
    ELSE {Head(list)} \cup Flatten(Head(list).Subcommands) \cup Flatten(Tail(list))

CommandById(id) == CHOOSE cmd \in Flatten(Commands) : cmd.Id = id

\* The last FindCommand matched a command and checked its permissions: it
\* did not run off the end of a list.
PermissionChecked ==
    /\ Resolved
    /\ cmdFound.examined # <<>>
    /\ cmdFound.panicked \/ cmdFound.msg # Text(CommandErrInvalid)

\* C8: a command that requires a named permission, matched for a session
\* with no character attached, resolves to permission-denied, and the check
\* does not fail.
C8_NoCharacterDenied ==
    ( /\ PermissionChecked
      /\ character[cmdSession] = None
      /\ Len(CommandById(Last(cmdFound.examined)).Permissions.RequirePermission) > 0 )
    => /\ ~cmdFound.panicked
       /\ crashed = None
       /\ cmdFound.msg = Text(CommandErrNoPerms)

\* The tokens before the final one.
Front(seq) == SubSeq(seq, 1, Len(seq) - 1)

\* The line typed ends with --help after at least one other token.
EndsWithHelp(line) == Len(Fields(line)) > 1 /\ Last(Fields(line)) = Lit.help

\* The tokens before --help name a command the session may use: typed alone
\* they reach a handler, an alias, or the help of a command.
NamesCommand(s, line) ==
    LET r == ProcessOnce(s, Join(Front(Fields(line)), <<" ">>)) IN
    \/ r.kind \in {"invoke", "alias"}
    \/ r.kind = "error" /\ r.msg.kind \in {"SubcommandHelp", "ArgumentHelp"}

\* A text that is usage help.
IsUsage(msg) ==
    msg.kind \in {"SubcommandHelp", "ArgumentHelp", "There are no command arguments.",
                  "There are no sub-commands available."}

\* C9: a line that ends with --help after the name of a command (one with
\* children, or a leaf with or without arguments) is answered with usage
\* text, and no handler runs.
C9_HelpReturnsUsage ==
    (Resolved /\ EndsWithHelp(cmdInput) /\ NamesCommand(cmdSession, cmdInput)) =>
        /\ cmdPc = "done"
        /\ cmdCalls = <<>>
        /\ sendData[cmdSession] # <<>>
        /\ IsUsage(Last(sendData[cmdSession]))

\* The number of leading tokens of sections that resolution of s takes as
\* command names: one per level of the tree it reaches.
RECURSIVE NameDepth(_, _, _)
NameDepth(s, list, sections) ==
    LET hits == {i \in 1..Len(list) : Matches(list[i], CmdName(sections))} IN
    IF hits = {} THEN 1
    ELSE LET cmd == list[Min(hits)] IN
         IF CheckPermissions(cmd, s) = "true" /\ cmd.Subcommands # <<>> /\ Len(sections) > 1
         THEN 1 + NameDepth(s, cmd.Subcommands, Tail(sections))
         ELSE 1

\* sections with the letters of its first k tokens in upper case.
UpperNames(sections, k) ==
    [i \in 1..Len(sections) |-> IF i <= k THEN ToUpper(sections[i]) ELSE sections[i]]

\* sections with the letters of its first k tokens in lower case.
LowerNames(sections, k) ==
    [i \in 1..Len(sections) |-> IF i <= k THEN ToLower(sections[i]) ELSE sections[i]]

\* What ProcessCommand resolved: command, arguments, error text, commands
\* compared, and the target when it is an alias.
Resolution(r) == [kind |-> r.kind, msg |-> r.msg, found |-> r.found, next |-> r.next]

\* C10: the typed line, the line with its command-name tokens in upper case
\* and the line with them in lower case resolve alike for the same session:
\* the same command, the same arguments, the same error text.
C10_CaseOfNameIgnored ==
    (cmdPc = "process" /\ Fields(cmdLine) # <<>>) =>
        LET s == cmdSession
            sections == Fields(cmdLine)
            typed == Resolution(ProcessOnce(s, cmdLine)) IN
        \A k \in 1..NameDepth(s, Commands, sections) :
            /\ Resolution(ProcessOnce(s, Join(UpperNames(sections, k), <<" ">>))) = typed
            /\ Resolution(ProcessOnce(s, Join(LowerNames(sections, k), <<" ">>))) = typed

\* "L", an alternate name typed in upper case, has resolved to the command
\* look and its handler has run.
C10_UpperCaseResolved ==
    /\ cmdPc = "done"
    /\ cmdInput = Lit.L
    /\ Len(cmdCalls) = 1
    /\ cmdCalls[1].command = "look"

\* Where the descent of the tree for sections by session s ends: at no
\* command of that name ("unknown"), at a command that refuses s ("denied"),
\* at a permission check that fails ("panic"), at a command with children
\* and no token left ("children"), or at a leaf with its argument tokens.
RECURSIVE Walk(_, _, _)
Walk(s, list, sections) ==
    LET hits == {i \in 1..Len(list) : Matches(list[i], CmdName(sections))}
        stop == [end |-> "unknown", cmd |-> NoCmd, tokens |-> <<>>] IN
    IF hits = {} THEN stop
    ELSE LET cmd == list[Min(hits)]
             allowed == CheckPermissions(cmd, s) IN
         IF allowed = "false" THEN [stop EXCEPT !.end = "denied", !.cmd = cmd]
         ELSE IF allowed = "panic" THEN [stop EXCEPT !.end = "panic", !.cmd = cmd]
         ELSE IF cmd.Subcommands # <<>>
         THEN IF Len(sections) = 1 THEN [stop EXCEPT !.end = "children", !.cmd = cmd]
              ELSE Walk(s, cmd.Subcommands, Tail(sections))
         ELSE [end |-> "leaf", cmd |-> cmd, tokens |-> ParseArguments(Tail(sections))]

\* The names of the arguments a command declares.
ArgumentNames(cmd) == {cmd.Arguments[i].Name : i \in 1..Len(cmd.Arguments)}

\* The line ProcessCommand is about to resolve reaches a leaf for which
\* fewer tokens than declared arguments are supplied, every argument without
\* a token being optional, and the last token not being --help.
OptionalsMissing(w) ==
    LET n == Len(w.tokens) IN
    /\ w.end = "leaf"
    /\ n < Len(w.cmd.Arguments)
    /\ \A i \in (n + 1)..Len(w.cmd.Arguments) : w.cmd.Arguments[i].Optional
    /\ n > 0 => w.tokens[n] # Lit.help

\* C11: when a leaf is supplied fewer tokens than it declares arguments and
\* every argument without a token is optional (one marked consume-remaining
\* included), resolution succeeds with that leaf, the argument map has one
\* entry per declared argument, and each argument without a token is "".
C11_MissingOptionalEmpty ==
    [][ LET r == ProcessOnce(cmdSession, cmdLine)
            w == Walk(cmdSession, Commands, Fields(r.resolved)) IN
        (cmdPc = "process" /\ r.resolved # <<>> /\ OptionalsMissing(w)) =>
            /\ ~cmdFound'.panicked
            /\ cmdFound'.cmd.Id = w.cmd.Id
            /\ DOMAIN cmdFound'.args = ArgumentNames(w.cmd)
            /\ \A i \in (Len(w.tokens) + 1)..Len(w.cmd.Arguments) :
                  MapGet(cmdFound'.args, w.cmd.Arguments[i].Name) = <<>> ]_vars

\* C12: when a leaf is resolved, its i-th declared argument, if a token is
\* supplied at position i, holds that one token, or, when it is marked
\* consume-remaining, the tokens from position i to the end separated by
\* single spaces.
C12_RemainingOrOneToken ==
    [][ LET r == ProcessOnce(cmdSession, cmdLine)
            w == Walk(cmdSession, Commands, Fields(r.resolved)) IN
        ( /\ cmdPc = "process" /\ r.resolved # <<>> /\ w.end = "leaf"
          /\ ~cmdFound'.panicked /\ cmdFound'.cmd.Id = w.cmd.Id ) =>
            \A i \in 1..Len(w.cmd.Arguments) :
                i <= Len(w.tokens) =>
                    LET arg == w.cmd.Arguments[i]
                        value == MapGet(cmdFound'.args, arg.Name) IN
                    IF arg.IncludeRemaining
                    THEN Split(value, " ") = SubSeq(w.tokens, i, Len(w.tokens))
                    ELSE value = w.tokens[i] ]_vars

\* "tell hello general list" has run its handler: the first argument took
\* one token, the consume-remaining argument after it the other two.
C12_RemainingTaken ==
    /\ cmdPc = "done"
    /\ cmdInput = Join(<<Lit.tell, Lit.hello, Lit.general, Lit.list>>, <<" ">>)
    /\ Len(cmdCalls) = 1
    /\ cmdCalls[1].command = "tell"
    /\ MapGet(cmdCalls[1].args, Lit.target) = Lit.hello
    /\ MapGet(cmdCalls[1].args, Lit.text) = Lit.general \o <<" ">> \o Lit.list

\* The sub-commands of cmd that pass their own permission predicate for s.
PermittedChildren(cmd, s) ==
    SelectSeq(cmd.Subcommands, LAMBDA sub : CheckPermissions(sub, s) = "true")

\* C13: the listing returned for a command with children and no token left
\* has a row for a child exactly when the session passes that child's own
\* permission predicate, and nothing was logged or run to produce it.
C13_ListsPermittedChildren ==
    (cmdPc = "done" /\ cmdFound.msg.kind = "SubcommandHelp") =>
        LET parent == CommandById(Last(cmdFound.examined))
            permitted == PermittedChildren(parent, cmdSession) IN
        /\ cmdFound.msg.rows =
              [i \in 1..Len(permitted) |-> Row(permitted[i].Name, permitted[i].Help, FALSE)]
        /\ cmdLog = <<>>
        /\ cmdCalls = <<>>

\* A required argument of the leaf has no token.
MissingRequired(w) ==
    /\ w.end = "leaf"
    /\ \E i \in 1..Len(w.cmd.Arguments) :
          ~w.cmd.Arguments[i].Optional /\ Len(w.tokens) < i

\* The text a resolution error is answered with.
ErrorText(w, msg) ==
    CASE w.end = "unknown" -> msg = Text(CommandErrInvalid)
      [] w.end = "denied" -> msg = Text(CommandErrNoPerms)
      [] OTHER -> msg.kind = "ArgumentHelp" /\ msg.help = w.cmd.Help

\* C14: when the line names no command, a command that refuses the session,
\* or a leaf with a required argument missing, the call ends at once: no
\* handler runs, nothing is logged, no entity or session state changes, and
\* exactly one message, the error or usage text, is queued, on the invoking
\* session only.
C14_ErrorEndsInvocation ==
    [][ LET r == ProcessOnce(cmdSession, cmdLine)
            w == Walk(cmdSession, Commands, Fields(r.resolved)) IN
        ( /\ cmdPc = "process" /\ r.resolved # <<>>
          /\ w.end \in {"unknown", "denied"} \/ MissingRequired(w) ) =>
            /\ cmdPc' = "done"
            /\ UNCHANGED <<cmdLog, cmdCalls, attrVars>>
            /\ UNCHANGED <<UnsafeObjects, registry, players, character, player,
                           sendClosed, UnsafeTempAttributes, callbacks, teardown, crashed>>
            /\ \A s \in Sessions \ {cmdSession} : sendData'[s] = sendData[s]
            /\ Len(sendData'[cmdSession]) = Len(sendData[cmdSession]) + 1
            /\ SubSeq(sendData'[cmdSession], 1, Len(sendData[cmdSession]))
                  = sendData[cmdSession]
            /\ ErrorText(w, Last(sendData'[cmdSession])) ]_vars

\* "say" was entered without its required text by a session with a
\* character: the usage of say is the one message queued, nothing was logged
\* and no handler ran.
C14_UsageShown ==
    /\ cmdPc = "done"
    /\ cmdSession = "s1"
    /\ cmdInput = Lit.say
    /\ Len(sendData["s1"]) = 1
    /\ sendData["s1"][1].kind = "ArgumentHelp"
    /\ sendData["s2"] = <<>> /\ sendData["s3"] = <<>>
    /\ cmdLog = <<>>
    /\ cmdCalls = <<>>

\* The identity LogCtx logs for the session: its character, or "Anonymous".
Actor(s) == IF character[s] = None THEN "Anonymous" ELSE character[s]

\* C15: an invocation is logged before its handler runs and once only; the
\* record names the actor and the command and holds the value of every
\* argument not flagged NoLog; an argument flagged NoLog has no entry in it,
\* and the record is the same whatever the value of that argument is.
C15_LoggedOnceWithoutSecrets ==
    /\ cmdPc = "handler" => Len(cmdLog) = Len(cmdCalls) + 1
    /\ cmdPc \in {"idle", "process", "done", "panic"} => Len(cmdLog) = Len(cmdCalls)
    /\ (cmdPc \in {"handler", "done"} /\ cmdLog # <<>>) =>
          LET rec == Last(cmdLog)
              cmd == cmdFound.cmd
              args == cmdFound.args IN
          /\ rec.character = Actor(cmdSession)
          /\ rec.command = cmd.Name
          /\ \A i \in 1..Len(cmd.Arguments) :
                LET arg == cmd.Arguments[i] IN
                IF arg.NoLog
                THEN /\ \A pair \in rec.arguments : pair[1] # arg.Name
                     /\ \A v \in RestWords :
                           LogCtx(cmd, MapSet(args, arg.Name, v), character[cmdSession])
                              = rec
                ELSE <<arg.Name, MapGet(args, arg.Name)>> \in rec.arguments

\* A session without a character has logged in: the handler ran once with
\* the password, and the one log record holds the name only.
C15_PasswordKeptOut ==
    /\ cmdPc = "done"
    /\ cmdSession = "s3"
    /\ cmdInput = Join(<<Lit.login, Lit.hello, Lit.general>>, <<" ">>)
    /\ Len(cmdCalls) = 1
    /\ MapGet(cmdCalls[1].args, Lit.password) = Lit.general
    /\ cmdLog = << [character |-> "Anonymous", command |-> Lit.login,
                    arguments |-> {<<Lit.name, Lit.hello>>}] >>

\* ------------------------------------------------------------------ C16

\* The queue of the session a character had when the world was loaded.
QueueOf(c) == sendData[InitPlayer(c)]

\* The one Move of the behaviour has returned: nothing else was started, no
\* task is inside a call, and the last callbacks are the two CharacterEntered
\* with which Move ends.
OneMoveDone ==
    /\ ops = 1
    /\ crashed = None
    /\ \A t \in Tasks : pc[t] = "idle"
    /\ Len(callbacks) >= 2
    /\ Last(callbacks).fn = "CharacterEntered"

\* The mover, the source and the destination of that Move, as the callbacks
\* it ended with name them.
MovedChar == Last(callbacks).c

MovedFrom == callbacks[Len(callbacks) - 1].on

MovedTo == Last(callbacks).on

\* C16: after one Move of a character A to a different room, every online
\* character B that shared A's room holds exactly one message, the departure
\* message of A; A holds exactly one message, its arrival message; and a
\* character that is in neither the source nor the destination holds none.
C16_OneDepartureOneArrival ==
    (OneMoveDone /\ MovedFrom # MovedTo) =>
        /\ QueueOf(MovedChar) = << [kind |-> "msgToChar", about |-> MovedChar] >>
        /\ \A b \in Chars \ {MovedChar} :
              LET was == InitRoom(b) IN
              /\ was = MovedFrom =>
                    QueueOf(b) = << [kind |-> "msgToOld", about |-> MovedChar] >>
              /\ was \notin {MovedFrom, MovedTo} => QueueOf(b) = <<>>
        /\ sendData["s3"] = <<>>

\* c1 has moved from r1, which it shared with c2, to the empty r3: c2 holds
\* the departure message, c1 its arrival message, c3 in r2 holds nothing.
C16_MovedOutOfSharedRoom ==
    /\ OneMoveDone
    /\ MovedChar = "c1" /\ MovedFrom = "r1" /\ MovedTo = "r3"
    /\ registry["c1"] = "r3"
    /\ sendData["s2"] = << [kind |-> "msgToOld", about |-> "c1"] >>
    /\ sendData["s1"] = << [kind |-> "msgToChar", about |-> "c1"] >>
    /\ sendData["s4"] = <<>>

\* ------------------------------------------------------------------ C17

\* The call made last is ii.Attribute(n) on the item instance.
ItemLookupMade == lastCall.fn = "Attribute" /\ lastCall.kind = "item"

\* The step is ii.Attribute(n) made right after ii.SetAttribute(n, v) with a
\* whitelisted n.
LookupAfterSet ==
    /\ lastCall.fn = "SetAttribute" /\ lastCall.kind = "item"
    /\ lastCall.name \in ValidItemAttributes
    /\ calls' = calls + 1
    /\ lastCall'.fn = "Attribute" /\ lastCall'.kind = "item"
    /\ lastCall'.name = lastCall.name

\* The step is ii.Attribute(n) on an instance whose map has no entry for n.
LookupWithoutOverlay ==
    /\ calls' = calls + 1
    /\ lastCall'.fn = "Attribute" /\ lastCall'.kind = "item"
    /\ lastCall'.name \notin DOMAIN iiAttributes.m

\* C17 as stated: an instance with no overlay value for n returns the
\* template's value for n, and after SetAttribute(n, v) with a whitelisted n
\* Attribute(n) returns v, for every v, the empty string included.
C17_OverlayShadowsAnyValue ==
    [][/\ LookupWithoutOverlay => lastCall'.ret = ItemAttribute(lastCall'.name)
       /\ LookupAfterSet => lastCall'.ret = lastCall.value]_vars

\* C17 as amended: an instance with no overlay value for n returns the
\* template's value for n; after SetAttribute(n, v) with a whitelisted n
\* Attribute(n) returns v when v is not the empty string, and the template's
\* value when it is.
C17_OverlayShadows ==
    [][/\ LookupWithoutOverlay => lastCall'.ret = ItemAttribute(lastCall'.name)
       /\ LookupAfterSet =>
             lastCall'.ret = IF lastCall.value # <<>> THEN lastCall.value
                             ELSE ItemAttribute(lastCall.name)]_vars

\* picture, which the template sets to "a", has been set to "b" on the
\* instance and looked up: the lookup returned "b".
C17_OverlayReturned ==
    /\ ItemLookupMade
    /\ lastCall.name = "picture"
    /\ ItemAttribute("picture") = <<"a">>
    /\ MapGet(iiAttributes.m, "picture") = <<"b">>
    /\ lastCall.ret = <<"b">>

\* ------------------------------------------------------------------ C18

\* C18: in every interleaving of DisconnectPlayer with the notification
\* senders, no send targets a queue that has been closed: no task holds, at
\* its send, the reference of a session whose queue is closed, and no send
\* has panicked on a closed queue.
C18_NoSendAfterClose ==
    /\ crashed # "panic: send on closed channel"
    /\ \A t \in Tasks :
          (pc[t] \in {"move_send_old", "move_send_new", "move_send_self"}
             /\ frame[t].p # None) => QueueOpen(frame[t].p)

\* ------------------------------------------------------------------ C20

\* The task is inside a call of Move.
InMove(t) ==
    pc[t] \in {"move_remove", "move_add", "move_notify_old", "move_ref_old",
               "move_send_old", "move_notify_new", "move_ref_new", "move_send_new",
               "move_notify_self", "move_send_self", "move_callbacks"}

\* C20: in every state a concurrent task can observe while a Move is under
\* way, Character.Room of the mover is the source room or the destination
\* room of that Move, never none.
C20_MoverAlwaysIndexed ==
    \A t \in Tasks :
        InMove(t) => Room(frame[t].c) \in {frame[t].oldRoom, frame[t].to} \ {None}

\* ------------------------------------------------------------------ C19

\* The call has re-resolved at least once and is about to resolve the line
\* it was started with. What a line resolves to depends on the line, the
\* session and the command tree only, none of which a re-resolution changes,
\* so from here the call repeats the same re-resolutions without end.
BackAtTypedLine == cmdPc = "process" /\ cmdAlias # <<>> /\ cmdLine = cmdInput

\* C19: a ProcessCommand call returns after finitely many re-resolutions,
\* whatever the line and the command tree, alias targets that lead back to
\* one another included: no call comes back to a line it has resolved.
C19_ProcessCommandReturns == ~BackAtTypedLine

\* ------------------------------------------------------------------ C21

\* The step is the detach of DisconnectPlayer for session s.
Detaches(s) == teardown'[s].detach = teardown[s].detach + 1

\* The step is the return of the DisconnectPlayer call that tore s down.
DisconnectReturns(s) == teardown'[s].removed = teardown[s].removed + 1

\* The leave callbacks LoggedOut fires for character c have been recorded.
LeftRecorded(c) ==
    \E i \in 1..Len(callbacks) : callbacks[i].fn = "CharacterLeft" /\ callbacks[i].c = c

\* C21: for a session with a character, the logout side effects (the leave
\* callbacks, the clearing of every temp attribute) have run when the detach
\* is made; when DisconnectPlayer returns the temp attributes are empty, the
\* character has no session and the session no character; no step of the
\* call changes a permanent attribute.
C21_LogoutThenDetach ==
    [][\A s \in Sessions :
          LET c == InitCharacter(s) IN
          c # None =>
            /\ Detaches(s) =>
                  /\ teardown[s].logout = 1
                  /\ LeftRecorded(c)
                  /\ UnsafeTempAttributes[c] = EmptyMap
                  /\ character[s] = c /\ player[c] = s
            /\ DisconnectReturns(s) =>
                  /\ teardown'[s].logout = 1 /\ teardown'[s].detach = 1
                  /\ UnsafeTempAttributes'[c] = EmptyMap
                  /\ player'[c] = None
                  /\ character'[s] = None
            /\ (Disconnecting(s) \/ Detaches(s) \/ DisconnectReturns(s)) =>
                  UnsafeAttributes'[c] = UnsafeAttributes[c]]_vars

\* DisconnectPlayer has returned for s1, whose character c1 had a temp
\* attribute: the attribute is gone and c1 and s1 no longer refer to each
\* other.
C21_Detached ==
    /\ teardown["s1"].removed = 1
    /\ teardown["s1"].logout = 1
    /\ GhostOn # EmptyMap
    /\ UnsafeTempAttributes["c1"] = EmptyMap
    /\ player["c1"] = None
    /\ character["s1"] = None
    /\ LeftRecorded("c1")

\* ------------------------------------------------------------------ C25

\* How many of the callbacks in fired are fn on the room or area on.
Fired(fired, fn, on) ==
    Cardinality({i \in 1..Len(fired) : fired[i].fn = fn /\ fired[i].on = on})

\* The position in fired of the one callback fn on the room or area on.
FiredAt(fired, fn, on) ==
    CHOOSE i \in 1..Len(fired) : fired[i].fn = fn /\ fired[i].on = on

\* C25: the callbacks of a Move from a room to another room are one leave
\* callback on the source room and one enter callback on the destination
\* room; the leave callback on the old area and the enter callback on the new
\* area fire, once each and in that order, if and only if the areas differ.
C25_LeaveSourceEnterDestination ==
    [][\A t \in Tasks :
          (pc[t] = "move_callbacks" /\ pc'[t] = "idle"
             /\ frame[t].oldRoom # frame[t].to) =>
            LET f == frame[t]
                fired == SubSeq(callbacks', Len(callbacks) + 1, Len(callbacks'))
                oldArea == ParentArea(f.oldRoom)
                newArea == ParentArea(f.to) IN
            /\ \A i \in 1..Len(fired) : fired[i].c = f.c
            /\ Fired(fired, "CharacterLeft", f.oldRoom) = 1
            /\ Fired(fired, "CharacterEntered", f.to) = 1
            /\ Fired(fired, "CharacterEntered", f.oldRoom) = 0
            /\ IF oldArea # newArea
               THEN /\ Fired(fired, "CharacterLeft", oldArea) = 1
                    /\ Fired(fired, "CharacterEntered", newArea) = 1
                    /\ FiredAt(fired, "CharacterLeft", oldArea)
                          < FiredAt(fired, "CharacterEntered", newArea)
               ELSE \A a \in {oldArea, newArea} :
                      /\ Fired(fired, "CharacterLeft", a) = 0
                      /\ Fired(fired, "CharacterEntered", a) = 0]_vars

\* ------------------------------------------------------------------ C22

\* C22: every access to a character's temp attributes is made under the
\* character's lock: a task inside the clearing loop of LoggedOut holds the
\* write lock, and no other task is at a SetTempAttribute or TempAttribute
\* access to the same map at that moment.
C22_TempAttributesUnderLock ==
    \A t \in Tasks :
        lpc[t] = "lo_clear" =>
            /\ rwWriter[LockChar] = t
            /\ ~Accessing(t)

\* ------------------------------------------------------------------ C23

\* The entity locks task t holds.
HeldBy(t) == {e \in Entities : rwReaders[e][t] > 0 \/ rwWriter[e] = t}

\* C23: no task holds the lock of one entity while it takes the lock of
\* another: in every state each task holds the lock of at most one entity.
C23_OneEntityLockAtATime == \A t \in Tasks : Cardinality(HeldBy(t)) <= 1

\* ------------------------------------------------------------------ C24

\* C24: after any sequence of SetLocationType and SetCharacter calls the
\* location type agrees with the back-reference: held-by-character means
\* the character reference is set, in-room means the room location is set and
\* the character reference is not.
C24_LocationTypeAgrees ==
    (\A t \in Tasks : lpc[t] = "idle") =>
        /\ UnsafeLocationType = ItemLocationCharacter => UnsafeCharacter # ""
        /\ UnsafeLocationType = ItemLocationRoom =>
              (Location # None /\ UnsafeCharacter = "")

\* ------------------------------------------------------------------ C26

\* Task t is inside a call of ItemInstance.Attribute.
InAttribute(t) ==
    lpc[t] \in {"attr_rlock", "attr_read", "parent_rlock", "parent_runlock",
                "item_rlock", "item_read", "item_runlock", "attr_runlock"}

\* C26: every call of ItemInstance.Attribute returns, whatever SetAttribute,
\* SetLocationType or SetCharacter call another task makes on the instance
\* meanwhile; a run the runtime ends with a fatal error is left aside.
C26_AttributeReturns ==
    \A t \in Tasks : InAttribute(t) ~> (~InAttribute(t) \/ crashed # None)

====
